---- MODULE Spec2Model ----
(***************************************************************************)
(* Model of monofonIC's initial-condition generator: ic_generator::Run     *)
(* (src/src/ic_generator.cc) and the start-up of main (src/src/main.cc).   *)
(*                                                                         *)
(* A grid is modelled as the 2 x 2 x 2 instance of Grid_FFT (GridRes = 2): *)
(* a state flag and a raw buffer of eight exact complex numbers.  The      *)
(* buffer holds whatever was written last, whichever accessor (relem or    *)
(* kelem) wrote it, so a read through the wrong accessor is visible.       *)
(* Numbers are exact fractions (a + b i)/d.                                *)
(***************************************************************************)
EXTENDS Integers, Sequences, FiniteSets, TLC

(***************************************************************************)
(* Exact complex arithmetic: <<a, b, d>> is (a + b i)/d with d > 0 and     *)
(* gcd(a, b, d) = 1.  It stands for real_t / ccomplex_t.                   *)
(***************************************************************************)
Abs(x) == IF x < 0 THEN -x ELSE x

RECURSIVE GCD(_, _)
GCD(x, y) == IF y = 0 THEN x ELSE GCD(y, x % y)

CNorm(a, b, d) ==
    LET g0 == GCD(GCD(Abs(a), Abs(b)), Abs(d))
        g  == IF d < 0 THEN -g0 ELSE g0
    IN  <<a \div g, b \div g, d \div g>>

CZero == <<0, 0, 1>>
COne  == <<1, 0, 1>>
CImag == <<0, 1, 1>>
CInt(n) == <<n, 0, 1>>
CFrac(n, d) == CNorm(n, 0, d)

\* sums are taken over the least common denominator, to keep the numbers small
CAdd(x, y) ==
    LET gd == GCD(x[3], y[3])
        mx == y[3] \div gd
        my == x[3] \div gd
    IN  CNorm(x[1] * mx + y[1] * my, x[2] * mx + y[2] * my, x[3] * mx)
CNeg(x)    == <<-x[1], -x[2], x[3]>>
CSub(x, y) == CAdd(x, CNeg(y))
\* products cancel each numerator against the other denominator first
CMul(x, y) ==
    LET gx == GCD(GCD(Abs(x[1]), Abs(x[2])), y[3])
        gy == GCD(GCD(Abs(y[1]), Abs(y[2])), x[3])
        xa == x[1] \div gx
        xb == x[2] \div gx
        ya == y[1] \div gy
        yb == y[2] \div gy
    IN  CNorm(xa * ya - xb * yb, xa * yb + xb * ya, (x[3] \div gy) * (y[3] \div gx))
\* division by a non-zero real fraction y = <<n, 0, d>>
CDivR(x, y) == CNorm(x[1] * y[3], x[2] * y[3], x[3] * y[1])

\* std::conj, std::real, std::imag, and the quotient of two complex numbers
CConj(x) == <<x[1], -x[2], x[3]>>
CRe(x) == CNorm(x[1], 0, x[3])
CIm(x) == CNorm(x[2], 0, x[3])
CDiv(x, y) == CDivR(CMul(x, CConj(y)), CMul(y, CConj(y)))

(***************************************************************************)
(* Bounds of the model.                                                    *)
(***************************************************************************)
\* configured setup.LPTorder values range over -1 .. MaxCfgOrder, or absent
MaxCfgOrder == 4
\* ranks and slabs of the particle-id model
MaxRanks == 3
MaxSlabs == 3

(***************************************************************************)
(* Run parameters that are the same in every modelled run.  They are       *)
(* chosen so that the wave numbers are -1 and 0 and every field stays a    *)
(* small exact fraction.                                                   *)
(***************************************************************************)
\* setup.GridRes: the grid is ngrid^3 cells
ngrid == 2
\* setup.BoxLength
boxlen == 6
\* 2.0 * M_PI, with pi taken as 3
TwoPi == CInt(6)
\* CalcGrowthFactor(astart) / CalcGrowthFactor(1.0): the cosmology calculator is
\* external; the modelled run has D+ = 1/2
Dplus0 == CFrac(1, 2)
\* CalcVFact(astart), external; the modelled run has vfac = 5
vfac == CFrac(5, 1)
\* (boxlen / ngrid / 2 pi)^1.5 is irrational; the model carries its square, an
\* exact fraction (it enters phi(1) as one non-zero real factor)
volfac == CDivR(CFrac(boxlen * boxlen * boxlen, ngrid * ngrid * ngrid), CMul(TwoPi, CMul(TwoPi, TwoPi)))

(***************************************************************************)
(* Grid_FFT on the 2 x 2 x 2 grid.  Cell (i,j,k) has index 4i + 2j + k.    *)
(***************************************************************************)
Idx == 0 .. (ngrid * ngrid * ngrid - 1)
Dims == 0 .. 2

\* coordinate a of cell idx (get_idx inverted)
Coord(idx, a) == IF a = 0 THEN idx \div (ngrid * ngrid)
                 ELSE IF a = 1 THEN (idx \div ngrid) % ngrid
                 ELSE idx % ngrid

\* integer wave number of coordinate c: n in [-N/2, N/2)
WaveNo(c) == IF 2 * c < ngrid THEN c ELSE c - ngrid

\* get_k: component a of the wave vector of mode idx, 2 pi n / L
get_k(idx, a) == CDivR(CMul(CInt(WaveNo(Coord(idx, a))), TwoPi), CInt(boxlen))

\* k.norm_squared()
norm_squared(idx) ==
    CAdd(CMul(get_k(idx, 0), get_k(idx, 0)),
         CAdd(CMul(get_k(idx, 1), get_k(idx, 1)), CMul(get_k(idx, 2), get_k(idx, 2))))

IsDC(idx) == idx = 0

\* a buffer is the tuple of the eight elements, element idx at position idx + 1
Tab(F(_)) == <<F(0), F(1), F(2), F(3), F(4), F(5), F(6), F(7)>>

\* distance in idx between the two cells of axis a
Stride(a) == IF a = 0 THEN ngrid * ngrid ELSE IF a = 1 THEN ngrid ELSE 1

\* the 2-point transform along axis a: sum at wave number 0, difference at -1
DFTAxis(buf, a) ==
    Tab(LAMBDA idx : IF Coord(idx, a) = 0
                     THEN CAdd(buf[idx + 1], buf[idx + Stride(a) + 1])
                     ELSE CSub(buf[idx - Stride(a) + 1], buf[idx + 1]))

\* the unnormalised forward transform of a buffer, axis by axis
DFT(buf) == DFTAxis(DFTAxis(DFTAxis(buf, 0), 1), 2)
\* the backward transform, normalised by 1/N^3
IDFT(buf) ==
    LET t == DFT(buf)
    IN  Tab(LAMBDA idx : CDivR(t[idx + 1], CInt(ngrid * ngrid * ngrid)))

\* a grid is [space |-> "r" or "k", buf |-> the raw buffer]
\* FourierTransformForward(do_transform): nothing when already in k-state;
\* otherwise transform the data (when do_transform) and switch the flag
FourierTransformForward(g, do_transform) ==
    IF g.space = "k" THEN g
    ELSE [space |-> "k", buf |-> IF do_transform THEN DFT(g.buf) ELSE g.buf]

\* FourierTransformBackward(do_transform): the inverse direction
FourierTransformBackward(g, do_transform) ==
    IF g.space = "r" THEN g
    ELSE [space |-> "r", buf |-> IF do_transform THEN IDFT(g.buf) ELSE g.buf]

\* zero_DC_mode
zero_DC_mode(g) == [g EXCEPT !.buf = Tab(LAMBDA idx : IF IsDC(idx) THEN CZero ELSE g.buf[idx + 1])]

\* apply_InverseLaplacian: -G/|k|^2 for k # 0, 0 at k = 0
apply_InverseLaplacian(g) ==
    [g EXCEPT !.buf = Tab(LAMBDA idx :
        IF IsDC(idx) THEN CZero ELSE CNeg(CDivR(g.buf[idx + 1], norm_squared(idx))))]

\* apply_negative_Laplacian: |k|^2 G
apply_negative_Laplacian(g) ==
    [g EXCEPT !.buf = Tab(LAMBDA idx : CMul(norm_squared(idx), g.buf[idx + 1]))]

\* operator *= : every element times a real factor
ScaleGrid(g, x) == [g EXCEPT !.buf = Tab(LAMBDA idx : CMul(x, g.buf[idx + 1]))]

(***************************************************************************)
(* The convolver.  Each primitive takes the operands' k-space elements,    *)
(* applies the derivative kernels, multiplies in real space and hands the  *)
(* transform of the product to the caller's writer.                        *)
(***************************************************************************)
\* Hessian component (a, b): -k_a k_b F[k]
Hessian(buf, ab) ==
    Tab(LAMBDA idx : CNeg(CMul(CMul(get_k(idx, ab[1]), get_k(idx, ab[2])), buf[idx + 1])))
\* gradient component a: i k_a F[k]
Gradient(buf, a) == Tab(LAMBDA idx : CMul(CImag, CMul(get_k(idx, a), buf[idx + 1])))

BufMul(x, y) == Tab(LAMBDA idx : CMul(x[idx + 1], y[idx + 1]))
BufAdd(x, y) == Tab(LAMBDA idx : CAdd(x[idx + 1], y[idx + 1]))
BufSub(x, y) == Tab(LAMBDA idx : CSub(x[idx + 1], y[idx + 1]))

\* the product of two (three) k-space buffers taken in real space
Convolve2(x, y) == DFT(BufMul(IDFT(x), IDFT(y)))
Convolve3(x, y, z) == DFT(BufMul(BufMul(IDFT(x), IDFT(y)), IDFT(z)))

\* the value a convolver call hands to its writer; G maps grid names to grids
ConvValue(c, G) ==
    CASE c.prim = "Hessians" ->
            Convolve2(Hessian(G[c.a].buf, c.ia), Hessian(G[c.b].buf, c.ib))
      [] c.prim = "Hessians3" ->
            Convolve3(Hessian(G[c.a].buf, c.ia), Hessian(G[c.b].buf, c.ib),
                      Hessian(G[c.c].buf, c.ic))
      [] c.prim = "SumOfHessians" ->
            Convolve2(Hessian(G[c.a].buf, c.ia),
                      BufAdd(Hessian(G[c.b].buf, c.ib), Hessian(G[c.b].buf, c.ic)))
      [] c.prim = "DifferenceOfHessians" ->
            Convolve2(Hessian(G[c.a].buf, c.ia),
                      BufSub(Hessian(G[c.b].buf, c.ib), Hessian(G[c.b].buf, c.ic)))
      [] c.prim = "Gradient_and_Hessian" ->
            Convolve2(Gradient(G[c.a].buf, c.ia[1]), Hessian(G[c.b].buf, c.ib))

\* the writers with an assign that adds to what the destination held
Writer_AssignKeepsOld(w, old, v) ==
    CASE w \in {"assign_to", "assign_op"}         -> CAdd(old, v)
      [] w \in {"add_to", "add_op"}               -> CAdd(old, v)
      [] w \in {"add_twice_to", "add2_op"}        -> CAdd(old, CMul(CInt(2), v))
      [] w \in {"subtract_from", "sub_op"}        -> CSub(old, v)
      [] w \in {"subtract_twice_from", "sub2_op"} -> CSub(old, CMul(CInt(2), v))

\* assign_to, add_to, add_twice_to, subtract_from, subtract_twice_from of Run, and
\* assign_op, add_op, add2_op, sub_op, sub2_op of main (res the result, val the old value)
Writer(w, old, v) ==
    CASE w \in {"assign_to", "assign_op"}         -> v
      [] w \in {"add_to", "add_op"}               -> CAdd(old, v)
      [] w \in {"add_twice_to", "add2_op"}        -> CAdd(old, CMul(CInt(2), v))
      [] w \in {"subtract_from", "sub_op"}        -> CSub(old, v)
      [] w \in {"subtract_twice_from", "sub2_op"} -> CSub(old, CMul(CInt(2), v))

\* one convolver call: the writer stores into the destination's buffer
ExecCall(c, G) ==
    LET v == ConvValue(c, G)
    IN  [G EXCEPT ![c.dst].buf = Tab(LAMBDA idx : Writer(c.w, G[c.dst].buf[idx + 1], v[idx + 1]))]

Call2(prim, a, ia, b, ib, w, dst) ==
    [prim |-> prim, a |-> a, ia |-> ia, b |-> b, ib |-> ib, c |-> b, ic |-> ib, w |-> w, dst |-> dst]
Call3(prim, a, ia, b, ib, c, ic, w, dst) ==
    [prim |-> prim, a |-> a, ia |-> ia, b |-> b, ib |-> ib, c |-> c, ic |-> ic, w |-> w, dst |-> dst]

\* an entry of the history: a convolver call with its writer, or an operation on dst
Logged(op, dst, w) == [op |-> op, dst |-> dst, w |-> w]

\* A3[d]
A3(d) == IF d = 0 THEN "A3x" ELSE IF d = 1 THEN "A3y" ELSE "A3z"

\* the five calls of the phi(2) term
Phi2Calls_MixedThird ==
    << Call3("SumOfHessians", "phi", <<0,0>>, "phi", <<1,1>>, "phi", <<2,2>>, "assign_to", "phi2"),
       Call2("Hessians", "phi", <<1,1>>, "phi", <<2,2>>, "add_to", "phi2"),
       Call2("Hessians", "phi", <<0,1>>, "phi", <<0,2>>, "subtract_from", "phi2"),
       Call2("Hessians", "phi", <<0,2>>, "phi", <<0,2>>, "subtract_from", "phi2"),
       Call2("Hessians", "phi", <<1,2>>, "phi", <<1,2>>, "subtract_from", "phi2") >>

Phi2Calls ==
    << Call3("SumOfHessians", "phi", <<0,0>>, "phi", <<1,1>>, "phi", <<2,2>>, "assign_to", "phi2"),
       Call2("Hessians", "phi", <<1,1>>, "phi", <<2,2>>, "add_to", "phi2"),
       Call2("Hessians", "phi", <<0,1>>, "phi", <<0,1>>, "subtract_from", "phi2"),
       Call2("Hessians", "phi", <<0,2>>, "phi", <<0,2>>, "subtract_from", "phi2"),
       Call2("Hessians", "phi", <<1,2>>, "phi", <<1,2>>, "subtract_from", "phi2") >>

\* the five calls of the phi(3a) term
Phi3aCalls_SingleCross ==
    << Call3("Hessians3", "phi", <<0,0>>, "phi", <<1,1>>, "phi", <<2,2>>, "assign_to", "phi3a"),
       Call3("Hessians3", "phi", <<0,1>>, "phi", <<0,2>>, "phi", <<1,2>>, "add_to", "phi3a"),
       Call3("Hessians3", "phi", <<1,2>>, "phi", <<1,2>>, "phi", <<0,0>>, "subtract_from", "phi3a"),
       Call3("Hessians3", "phi", <<0,2>>, "phi", <<0,2>>, "phi", <<1,1>>, "subtract_from", "phi3a"),
       Call3("Hessians3", "phi", <<0,1>>, "phi", <<0,1>>, "phi", <<2,2>>, "subtract_from", "phi3a") >>

Phi3aCalls ==
    << Call3("Hessians3", "phi", <<0,0>>, "phi", <<1,1>>, "phi", <<2,2>>, "assign_to", "phi3a"),
       Call3("Hessians3", "phi", <<0,1>>, "phi", <<0,2>>, "phi", <<1,2>>, "add_twice_to", "phi3a"),
       Call3("Hessians3", "phi", <<1,2>>, "phi", <<1,2>>, "phi", <<0,0>>, "subtract_from", "phi3a"),
       Call3("Hessians3", "phi", <<0,2>>, "phi", <<0,2>>, "phi", <<1,1>>, "subtract_from", "phi3a"),
       Call3("Hessians3", "phi", <<0,1>>, "phi", <<0,1>>, "phi", <<2,2>>, "subtract_from", "phi3a") >>

\* the six calls of the phi(3b) term
Phi3bCalls_SwappedSum ==
    << Call3("SumOfHessians", "phi", <<0,0>>, "phi2", <<1,1>>, "phi2", <<2,2>>, "assign_to", "phi3b"),
       Call3("SumOfHessians", "phi", <<1,1>>, "phi2", <<2,2>>, "phi2", <<1,1>>, "add_to", "phi3b"),
       Call3("SumOfHessians", "phi", <<2,2>>, "phi2", <<0,0>>, "phi2", <<1,1>>, "add_to", "phi3b"),
       Call2("Hessians", "phi", <<0,1>>, "phi2", <<0,1>>, "subtract_twice_from", "phi3b"),
       Call2("Hessians", "phi", <<0,2>>, "phi2", <<0,2>>, "subtract_twice_from", "phi3b"),
       Call2("Hessians", "phi", <<1,2>>, "phi2", <<1,2>>, "subtract_twice_from", "phi3b") >>

Phi3bCalls ==
    << Call3("SumOfHessians", "phi", <<0,0>>, "phi2", <<1,1>>, "phi2", <<2,2>>, "assign_to", "phi3b"),
       Call3("SumOfHessians", "phi", <<1,1>>, "phi2", <<2,2>>, "phi2", <<0,0>>, "add_to", "phi3b"),
       Call3("SumOfHessians", "phi", <<2,2>>, "phi2", <<0,0>>, "phi2", <<1,1>>, "add_to", "phi3b"),
       Call2("Hessians", "phi", <<0,1>>, "phi2", <<0,1>>, "subtract_twice_from", "phi3b"),
       Call2("Hessians", "phi", <<0,2>>, "phi2", <<0,2>>, "subtract_twice_from", "phi3b"),
       Call2("Hessians", "phi", <<1,2>>, "phi2", <<1,2>>, "subtract_twice_from", "phi3b") >>

\* the four calls of the transversal term A3[d]
A3Calls(d) ==
    LET dp == (d + 1) % 3
        dpp == (d + 2) % 3
    IN  << Call2("Hessians", "phi2", <<d,dp>>, "phi", <<d,dpp>>, "assign_to", A3(d)),
           Call2("Hessians", "phi2", <<d,dpp>>, "phi", <<d,dp>>, "subtract_from", A3(d)),
           Call3("DifferenceOfHessians", "phi", <<dp,dpp>>, "phi2", <<dp,dp>>, "phi2", <<dpp,dpp>>,
                 "add_to", A3(d)),
           Call3("DifferenceOfHessians", "phi2", <<dp,dpp>>, "phi", <<dp,dp>>, "phi", <<dpp,dpp>>,
                 "subtract_from", A3(d)) >>

\* the three calls of the vNLO(3) term of SymplecticPT
VnloCalls_RepeatedAxis(d) ==
    << Call2("Gradient_and_Hessian", "phi", <<0>>, "phi2", <<d,0>>, "assign_to", A3(d)),
       Call2("Gradient_and_Hessian", "phi", <<1>>, "phi2", <<d,1>>, "add_to", A3(d)),
       Call2("Gradient_and_Hessian", "phi", <<1>>, "phi2", <<d,2>>, "add_to", A3(d)) >>

VnloCalls(d) ==
    << Call2("Gradient_and_Hessian", "phi", <<0>>, "phi2", <<d,0>>, "assign_to", A3(d)),
       Call2("Gradient_and_Hessian", "phi", <<1>>, "phi2", <<d,1>>, "add_to", A3(d)),
       Call2("Gradient_and_Hessian", "phi", <<2>>, "phi2", <<d,2>>, "add_to", A3(d)) >>

(***************************************************************************)
(* State.                                                                  *)
(***************************************************************************)
VARIABLES
    pc,         \* the statement ic_generator::Run is about to execute
    cfg,        \* the_config: fixed in a run
    species_as, \* the output plugin's answers to write_species_as, "unasked" before Run asks
    LPTorder,   \* the local variable LPTorder of Run
    g,          \* the growth coefficients g1, g2, g3a, g3b, g3c
    grids,      \* phi, phi2, phi3a, phi3b, A3x, A3y, A3z, tmp
    sp,         \* position in species_list (1 = dm, 2 = baryon)
    idim,       \* the loop variable idim of the loop being executed
    ci,         \* number of the next convolver call of the current term
    out,        \* the calls made to the output plugin, in order
    particles,  \* the particle_container of the current species
    qpt,        \* the semiclassical path: psi, rho, grad_psi
    snap,       \* history: the cascade's grids before and after growth scaling
    calls,      \* history: the operations the cascade of this iteration applied to its fields
    mainst,     \* the state of main (src/src/main.cc)
    ranks       \* the particle ids generated on each rank

vars == <<pc, cfg, species_as, LPTorder, g, grids, sp, idim, ci, out, particles, qpt, snap, calls, mainst, ranks>>

conf  == <<cfg, species_as, LPTorder, g>>
loops == <<sp, idim, ci>>
sinks == <<out, particles, qpt, calls>>
aside == <<mainst, ranks>>

species_list == <<"dm", "baryon">>
OutputTypes == {"particles", "field_lagrangian", "field_eulerian"}
CascadeGrids == {"phi", "phi2", "phi3a", "phi3b", "A3x", "A3y", "A3z"}
GridNames == CascadeGrids \cup {"tmp"}

\* fallback of GetValueSafe("setup", "LPTorder", 100)
DefaultLPTorder == 100

\* the_config.GetValueSafe: the configured value, or the fallback when absent
GetValueSafe(item, fallback) == IF item.present THEN item.val ELSE fallback

\* the values setup.LPTorder is configured with: absent, or -1 .. MaxCfgOrder
OrderItems ==
    {[present |-> FALSE, val |-> 0]} \cup {[present |-> TRUE, val |-> v] : v \in -1 .. MaxCfgOrder}

\* what a freshly allocated buffer may hold: the constructor does not clear it
ZeroBuf == Tab(LAMBDA idx : CZero)
StaleBuf == Tab(LAMBDA idx : CInt(idx + 1))
AllocBufs == {ZeroBuf, StaleBuf}

\* Grid_FFT's constructor: real state, contents as allocated
NewGrid(buf) == [space |-> "r", buf |-> buf]

\* the white noise the random number plugin writes for species number s
NoiseDm == <<1, 0, 0, 2, 0, -1, 0, 0>>
NoiseBaryon == <<0, 1, -1, 0, 0, 0, 2, 0>>
\* a sample may also come out the same in every cell
NoiseKinds == {"white", "uniform"}
Noise(s) ==
    IF cfg.noise = "uniform" THEN Tab(LAMBDA idx : COne)
    ELSE Tab(LAMBDA idx : CInt(IF s = 1 THEN NoiseDm[idx + 1] ELSE NoiseBaryon[idx + 1]))

\* RNG_plugin::Fill_Grid: a real sample into every cell, through relem
Fill_Grid(gr, s) == [gr EXCEPT !.buf = Noise(s)]

\* GetAmplitude(kmod, total): the cosmology calculator is external; the modelled
\* run has a flat spectrum whose amplitude equals volfac
GetAmplitude(idx) == volfac

\* the result of a floating point division by zero
CNaN == <<0, 0, 0>>

\* x / |x| for the real modes of the 2 x 2 x 2 grid; x itself when |x| = 0
FixMode(x) == IF x[1] > 0 THEN COne ELSE IF x[1] < 0 THEN CNeg(COne) ELSE x

\* the function handed to apply_function_k_dep for phi(1)
PhiAmplitude(x, idx, fixing) ==
    LET xx == IF fixing THEN FixMode(x) ELSE x
        delta == CMul(xx, GetAmplitude(idx))
    IN  IF IsDC(idx) THEN CNaN
        ELSE CDivR(CDivR(CNeg(delta), norm_squared(idx)), volfac)

\* the growth coefficients computed from LPTorder
Coefficients(order) ==
    LET D2 == CMul(Dplus0, Dplus0)
        D3 == CMul(D2, Dplus0)
    IN  [g1  |-> CNeg(Dplus0),
         g2  |-> IF order > 1 THEN CMul(CFrac(-3, 7), D2) ELSE CZero,
         g3a |-> IF order > 2 THEN CMul(CFrac(-1, 3), D3) ELSE CZero,
         g3b |-> IF order > 2 THEN CMul(CFrac(10, 21), D3) ELSE CZero,
         g3c |-> IF order > 2 THEN CMul(CFrac(-1, 7), D3) ELSE CZero]

vfac1 == vfac
vfac2 == CMul(CInt(2), vfac1)
vfac3 == CMul(CInt(3), vfac1)

\* the statement "phi *= g1; ... (*A3[2]) *= g3c"
ScalePotentials(G, gc) ==
    [n \in GridNames |->
        CASE n = "phi"   -> ScaleGrid(G[n], gc.g1)
          [] n = "phi2"  -> ScaleGrid(G[n], gc.g2)
          [] n = "phi3a" -> ScaleGrid(G[n], gc.g3a)
          [] n = "phi3b" -> ScaleGrid(G[n], gc.g3b)
          [] n \in {"A3x", "A3y", "A3z"} -> ScaleGrid(G[n], gc.g3c)
          [] OTHER -> G[n]]

\* bound of the model: main is started with 1 .. MaxArgc words on its command line
MaxArgc == 3

NoParticles == [n |-> 0, ids |-> <<>>, pos |-> <<>>, vel |-> <<>>]
NoQpt == [hbar |-> "unset",
          vel |-> [written |-> FALSE, at |-> [psi |-> CZero, grad_psi |-> CZero, rho |-> CZero,
                                              hbar |-> COne],
                   val |-> CZero, from |-> <<>>],
          psi |-> [space |-> "r", ops |-> <<>>],
          rho |-> [space |-> "r", ops |-> <<>>],
          grad_psi |-> [space |-> "r", ops |-> <<>>]]
NoMain == [pc |-> "off", argc |-> 2, file_ok |-> TRUE, keys |-> {}, plugins |-> {}, status |-> -1,
           log |-> <<>>, ran |-> FALSE, order |-> [present |-> FALSE, val |-> 0], step |-> 1,
           grids |-> [n \in GridNames |-> NewGrid(ZeroBuf)], calls |-> <<>>, out |-> <<>>]
NoRanks == [pc |-> "off", bcc |-> FALSE, n |-> 1, slabs |-> <<1>>, done |-> <<FALSE>>,
            parts |-> <<NoParticles>>]

\* the configurations of the modelled runs
Configs ==
    [order : OrderItems, SymplecticPT : BOOLEAN, BCClattice : BOOLEAN, DoFixing : {FALSE},
     alloc : AllocBufs, noise : NoiseKinds]

Init ==
    /\ pc = "ReadParams"
    /\ cfg \in Configs
    /\ species_as = [s \in {"dm", "baryon"} |-> "unasked"]
    /\ LPTorder = 0
    /\ g = Coefficients(0)
    /\ grids = [n \in GridNames |-> NewGrid(cfg.alloc)]
    /\ sp = 1
    /\ idim = 0
    /\ ci = 1
    /\ out = <<>>
    /\ particles = NoParticles
    /\ qpt = NoQpt
    /\ snap = [pre |-> grids, post |-> grids]
    /\ calls = <<>>
    /\ mainst = NoMain
    /\ ranks = NoRanks

this_species == species_list[sp]
\* the_output_plugin->write_species_as(this_species), once Run has asked
output_type == species_as[this_species]
bSymplecticPT == cfg.SymplecticPT
initial_bcc_lattice == cfg.BCClattice

(***************************************************************************)
(* ic_generator::Run, statement by statement.                              *)
(***************************************************************************)
\* lines 39-48: read the run parameters
ReadParams ==
    /\ pc = "ReadParams"
    /\ LPTorder' = GetValueSafe(cfg.order, DefaultLPTorder)
    /\ pc' = "Override"
    /\ UNCHANGED <<cfg, species_as, g, grids, loops, sinks, snap, aside>>

\* the override taken only for orders above 2
OverrideOrder_OnlyAboveTwo(symplectic, order) == IF symplectic /\ order > 2 THEN 2 ELSE order

\* the order Run continues with after lines 54-57
OverrideOrder(symplectic, order) == IF symplectic /\ order # 2 THEN 2 ELSE order

\* lines 54-57: SymplecticPT overwrites the chosen order
Override ==
    /\ pc = "Override"
    /\ LPTorder' = OverrideOrder(bSymplecticPT, LPTorder)
    /\ pc' = "Coeffs"
    /\ UNCHANGED <<cfg, species_as, g, grids, loops, sinks, snap, aside>>

\* lines 62-73: the LPT time coefficients
Coeffs ==
    /\ pc = "Coeffs"
    /\ g' = Coefficients(LPTorder)
    /\ pc' = "FillGrid"
    /\ UNCHANGED <<cfg, species_as, LPTorder, grids, loops, sinks, snap, aside>>

\* line 125
FillGrid ==
    /\ pc = "FillGrid"
    /\ grids' = [grids EXCEPT !["phi"] = Fill_Grid(@, sp)]
    /\ pc' = "PhiFFT"
    /\ calls' = <<>>
    /\ UNCHANGED <<conf, loops, out, particles, qpt, snap, aside>>

\* line 127
PhiFFT ==
    /\ pc = "PhiFFT"
    /\ grids' = [grids EXCEPT !["phi"] = FourierTransformForward(@, TRUE)]
    /\ pc' = "PhiAmp"
    /\ UNCHANGED <<conf, loops, sinks, snap, aside>>

\* lines 129-134
PhiAmp ==
    /\ pc = "PhiAmp"
    /\ grids' = [grids EXCEPT !["phi"].buf =
                    Tab(LAMBDA idx : PhiAmplitude(grids["phi"].buf[idx + 1], idx, cfg.DoFixing))]
    /\ pc' = "PhiZeroDC"
    /\ calls' = Append(calls, Logged("apply_function_k_dep", "phi", ""))
    /\ UNCHANGED <<conf, loops, out, particles, qpt, snap, aside>>

\* the DC mode left as the amplitude function made it
PhiZeroDC_Skipped ==
    /\ pc = "PhiZeroDC"
    /\ pc' = "Phi2Branch"
    /\ UNCHANGED <<conf, grids, loops, sinks, snap, aside>>

\* line 136
PhiZeroDC ==
    /\ pc = "PhiZeroDC"
    /\ grids' = [grids EXCEPT !["phi"] = zero_DC_mode(@)]
    /\ pc' = "Phi2Branch"
    /\ calls' = Append(calls, Logged("zero_DC_mode", "phi", ""))
    /\ UNCHANGED <<conf, loops, out, particles, qpt, snap, aside>>

\* phi(2) taken for a third-order term
Phi2Branch_OnlyAboveTwo ==
    /\ pc = "Phi2Branch"
    /\ pc' = IF LPTorder > 2 THEN "Phi2FTF" ELSE "Phi3Branch"
    /\ UNCHANGED <<conf, grids, loops, sinks, snap, aside>>

\* line 166
Phi2Branch ==
    /\ pc = "Phi2Branch"
    /\ pc' = IF LPTorder > 1 \/ bSymplecticPT THEN "Phi2FTF" ELSE "Phi3Branch"
    /\ UNCHANGED <<conf, grids, loops, sinks, snap, aside>>

\* line 169
Phi2FTF ==
    /\ pc = "Phi2FTF"
    /\ grids' = [grids EXCEPT !["phi2"] = FourierTransformForward(@, FALSE)]
    /\ ci' = 1
    /\ pc' = "Phi2Conv"
    /\ UNCHANGED <<conf, sp, idim, sinks, snap, aside>>

\* lines 170-174, one call at a time
Phi2Conv ==
    /\ pc = "Phi2Conv"
    /\ grids' = ExecCall(Phi2Calls[ci], grids)
    /\ ci' = ci + 1
    /\ pc' = IF ci = Len(Phi2Calls) THEN "Phi2InvLap" ELSE "Phi2Conv"
    /\ calls' = Append(calls, Logged("convolve_" \o Phi2Calls[ci].prim, Phi2Calls[ci].dst, Phi2Calls[ci].w))
    /\ UNCHANGED <<conf, sp, idim, out, particles, qpt, snap, aside>>

\* phi(2) left without its inverse Laplacian
Phi2InvLap_Left ==
    /\ pc = "Phi2InvLap"
    /\ pc' = "Phi3Branch"
    /\ UNCHANGED <<conf, grids, loops, sinks, snap, aside>>

\* line 175
Phi2InvLap ==
    /\ pc = "Phi2InvLap"
    /\ grids' = [grids EXCEPT !["phi2"] = apply_InverseLaplacian(@)]
    /\ pc' = "Phi3Branch"
    /\ calls' = Append(calls, Logged("apply_InverseLaplacian", "phi2", ""))
    /\ UNCHANGED <<conf, loops, out, particles, qpt, snap, aside>>

\* line 182
Phi3Branch ==
    /\ pc = "Phi3Branch"
    /\ pc' = IF LPTorder > 2 /\ ~bSymplecticPT THEN "Phi3aFTF" ELSE "SympBranch"
    /\ UNCHANGED <<conf, grids, loops, sinks, snap, aside>>

\* line 186
Phi3aFTF ==
    /\ pc = "Phi3aFTF"
    /\ grids' = [grids EXCEPT !["phi3a"] = FourierTransformForward(@, FALSE)]
    /\ ci' = 1
    /\ pc' = "Phi3aConv"
    /\ UNCHANGED <<conf, sp, idim, sinks, snap, aside>>

\* lines 187-191
Phi3aConv ==
    /\ pc = "Phi3aConv"
    /\ grids' = ExecCall(Phi3aCalls[ci], grids)
    /\ ci' = ci + 1
    /\ pc' = IF ci = Len(Phi3aCalls) THEN "Phi3aInvLap" ELSE "Phi3aConv"
    /\ calls' = Append(calls, Logged("convolve_" \o Phi3aCalls[ci].prim, Phi3aCalls[ci].dst, Phi3aCalls[ci].w))
    /\ UNCHANGED <<conf, sp, idim, out, particles, qpt, snap, aside>>

\* line 192
Phi3aInvLap ==
    /\ pc = "Phi3aInvLap"
    /\ grids' = [grids EXCEPT !["phi3a"] = apply_InverseLaplacian(@)]
    /\ pc' = "Phi3bFTF"
    /\ calls' = Append(calls, Logged("apply_InverseLaplacian", "phi3a", ""))
    /\ UNCHANGED <<conf, loops, out, particles, qpt, snap, aside>>

\* line 198
Phi3bFTF ==
    /\ pc = "Phi3bFTF"
    /\ grids' = [grids EXCEPT !["phi3b"] = FourierTransformForward(@, FALSE)]
    /\ ci' = 1
    /\ pc' = "Phi3bConv"
    /\ UNCHANGED <<conf, sp, idim, sinks, snap, aside>>

\* lines 199-204
Phi3bConv ==
    /\ pc = "Phi3bConv"
    /\ grids' = ExecCall(Phi3bCalls[ci], grids)
    /\ ci' = ci + 1
    /\ pc' = IF ci = Len(Phi3bCalls) THEN "Phi3bInvLap" ELSE "Phi3bConv"
    /\ calls' = Append(calls, Logged("convolve_" \o Phi3bCalls[ci].prim, Phi3bCalls[ci].dst, Phi3bCalls[ci].w))
    /\ UNCHANGED <<conf, sp, idim, out, particles, qpt, snap, aside>>

\* line 205
Phi3bInvLap ==
    /\ pc = "Phi3bInvLap"
    /\ grids' = [grids EXCEPT !["phi3b"] = apply_InverseLaplacian(@)]
    /\ pc' = "Phi3bHalf"
    /\ calls' = Append(calls, Logged("apply_InverseLaplacian", "phi3b", ""))
    /\ UNCHANGED <<conf, loops, out, particles, qpt, snap, aside>>

\* line 206
Phi3bHalf ==
    /\ pc = "Phi3bHalf"
    /\ grids' = [grids EXCEPT !["phi3b"] = ScaleGrid(@, CFrac(1, 2))]
    /\ idim' = 0
    /\ pc' = "A3FTF"
    /\ calls' = Append(calls, Logged("multiply", "phi3b", "0.5"))
    /\ UNCHANGED <<conf, sp, ci, out, particles, qpt, snap, aside>>

\* line 215
A3FTF ==
    /\ pc = "A3FTF"
    /\ grids' = [grids EXCEPT ![A3(idim)] = FourierTransformForward(@, FALSE)]
    /\ ci' = 1
    /\ pc' = "A3Conv"
    /\ UNCHANGED <<conf, sp, idim, sinks, snap, aside>>

\* lines 216-219
A3Conv ==
    /\ pc = "A3Conv"
    /\ grids' = ExecCall(A3Calls(idim)[ci], grids)
    /\ ci' = ci + 1
    /\ pc' = IF ci = Len(A3Calls(idim)) THEN "A3InvLap" ELSE "A3Conv"
    /\ calls' = Append(calls, Logged("convolve_" \o A3Calls(idim)[ci].prim, A3Calls(idim)[ci].dst, A3Calls(idim)[ci].w))
    /\ UNCHANGED <<conf, sp, idim, out, particles, qpt, snap, aside>>

\* line 220, and the loop of line 212
A3InvLap ==
    /\ pc = "A3InvLap"
    /\ grids' = [grids EXCEPT ![A3(idim)] = apply_InverseLaplacian(@)]
    /\ idim' = IF idim < 2 THEN idim + 1 ELSE 0
    /\ pc' = IF idim < 2 THEN "A3FTF" ELSE "SympBranch"
    /\ calls' = Append(calls, Logged("apply_InverseLaplacian", A3(idim), ""))
    /\ UNCHANGED <<conf, sp, ci, out, particles, qpt, snap, aside>>

\* line 225
SympBranch ==
    /\ pc = "SympBranch"
    /\ idim' = 0
    /\ pc' = IF bSymplecticPT THEN "VnloFTF" ELSE "Scale"
    /\ UNCHANGED <<conf, grids, sp, ci, sinks, snap, aside>>

\* line 231
VnloFTF ==
    /\ pc = "VnloFTF"
    /\ grids' = [grids EXCEPT ![A3(idim)] = FourierTransformForward(@, FALSE)]
    /\ ci' = 1
    /\ pc' = "VnloConv"
    /\ UNCHANGED <<conf, sp, idim, sinks, snap, aside>>

\* lines 232-234, and the loop of line 229
VnloConv ==
    /\ pc = "VnloConv"
    /\ grids' = ExecCall(VnloCalls(idim)[ci], grids)
    /\ ci' = ci + 1
    /\ idim' = IF ci = Len(VnloCalls(idim)) /\ idim < 2 THEN idim + 1 ELSE idim
    /\ pc' = IF ci < Len(VnloCalls(idim)) THEN "VnloConv"
             ELSE IF idim < 2 THEN "VnloFTF" ELSE "Scale"
    /\ calls' = Append(calls, Logged("convolve_" \o VnloCalls(idim)[ci].prim, VnloCalls(idim)[ci].dst, VnloCalls(idim)[ci].w))
    /\ UNCHANGED <<conf, sp, out, particles, qpt, snap, aside>>

\* lines 241-247: scale all potentials with their growth factors
Scale ==
    /\ pc = "Scale"
    /\ grids' = ScalePotentials(grids, g)
    /\ snap' = [pre |-> grids, post |-> grids']
    /\ pc' = "AllocTmp"
    /\ calls' = Append(calls, Logged("scale", "all", ""))
    /\ UNCHANGED <<conf, loops, out, particles, qpt, aside>>

(***************************************************************************)
(* Emission.                                                               *)
(***************************************************************************)
\* line 262: temporary storage of data, created in every species iteration
AllocTmp ==
    /\ pc = "AllocTmp"
    /\ grids' = [grids EXCEPT !["tmp"] = NewGrid(cfg.alloc)]
    /\ pc' = "Dispatch"
    /\ UNCHANGED <<conf, loops, sinks, snap, aside>>

\* line 266: the output plugin says how this species is written
Dispatch ==
    /\ pc = "Dispatch"
    /\ \E t \in OutputTypes :
         /\ species_as' = [species_as EXCEPT ![this_species] = t]
         /\ pc' = IF t = "field_eulerian" THEN "QptPhiFTB" ELSE "LagBranch"
    /\ qpt' = NoQpt
    /\ UNCHANGED <<cfg, LPTorder, g, grids, loops, out, particles, snap, aside, calls>>

(***************************************************************************)
(* The semiclassical path.  psi, rho and grad_psi hold exponentials of the *)
(* fields, so they are carried as the list of operations applied to them:  *)
(* each entry names the operation, the grids it read and the state flag    *)
(* each of those had when read.                                            *)
(***************************************************************************)
Op(name, from, spaces) == [op |-> name, from |-> from, spaces |-> spaces]

\* a symbolic grid after FourierTransformForward / FourierTransformBackward
SymForward(x) == IF x.space = "k" THEN x
                 ELSE [space |-> "k", ops |-> Append(x.ops, Op("fft", <<>>, <<>>))]
SymBackward(x) == IF x.space = "r" THEN x
                  ELSE [space |-> "r", ops |-> Append(x.ops, Op("ifft", <<>>, <<>>))]

\* line 277
QptPhiFTB ==
    /\ pc = "QptPhiFTB"
    /\ grids' = [grids EXCEPT !["phi"] = FourierTransformBackward(@, TRUE)]
    /\ pc' = "QptPsiBranch"
    /\ UNCHANGED <<conf, loops, sinks, snap, aside>>

\* phi.std() = 0: the standard deviation of the real-space data is zero exactly
\* when every cell holds the same value
std_is_zero(gr) == \A idx \in Idx : gr.buf[idx + 1] = gr.buf[1]

\* line 280: hbar = 2 pi / ngrid * (2 std_phi1 / Dplus0), zero exactly when std_phi1 is
hbar(gr) == IF std_is_zero(gr) THEN "zero" ELSE "positive"

\* lines 278-283: hbar from phi.std(), then the choice of the initialisation
QptPsiBranch ==
    /\ pc = "QptPsiBranch"
    /\ qpt' = [qpt EXCEPT !.hbar = hbar(grids["phi"])]
    /\ pc' = IF LPTorder = 1 THEN "QptPsiInit1"
             ELSE IF LPTorder >= 2 THEN "QptPhi2FTB" ELSE "QptPsiFFT"
    /\ UNCHANGED <<conf, grids, loops, out, particles, calls, snap, aside>>

\* lines 284-286: psi = exp(i phi / (hbar D+))
QptPsiInit1 ==
    /\ pc = "QptPsiInit1"
    /\ qpt' = [qpt EXCEPT !.psi.ops =
                 Append(@, Op("assign_exp", <<"phi">>, <<grids["phi"].space>>))]
    /\ pc' = "QptPsiFFT"
    /\ UNCHANGED <<conf, grids, loops, out, particles, snap, aside, calls>>

\* line 288
QptPhi2FTB ==
    /\ pc = "QptPhi2FTB"
    /\ grids' = [grids EXCEPT !["phi2"] = FourierTransformBackward(@, TRUE)]
    /\ pc' = "QptPsiInit2"
    /\ UNCHANGED <<conf, loops, sinks, snap, aside>>

\* lines 290-292: psi = exp(i (phi + phi2) / (hbar D+))
QptPsiInit2 ==
    /\ pc = "QptPsiInit2"
    /\ qpt' = [qpt EXCEPT !.psi.ops =
                 Append(@, Op("assign_exp", <<"phi", "phi2">>,
                              <<grids["phi"].space, grids["phi2"].space>>))]
    /\ pc' = "QptPsiFFT"
    /\ UNCHANGED <<conf, grids, loops, out, particles, snap, aside, calls>>

\* line 300
QptPsiFFT ==
    /\ pc = "QptPsiFFT"
    /\ qpt' = [qpt EXCEPT !.psi = SymForward(@)]
    /\ pc' = "QptDrift"
    /\ UNCHANGED <<conf, grids, loops, out, particles, snap, aside, calls>>

\* lines 301-304: one drift step, psi *= exp(-i hbar k^2 D+ / 2)
QptDrift ==
    /\ pc = "QptDrift"
    /\ qpt' = [qpt EXCEPT !.psi.ops = Append(@, Op("drift", <<"psi">>, <<qpt.psi.space>>))]
    /\ pc' = "QptPsiFTB"
    /\ UNCHANGED <<conf, grids, loops, out, particles, snap, aside, calls>>

\* lines 305-311: back to real space; from second order on, the phi2 factor
QptPsiFTB ==
    /\ pc = "QptPsiFTB"
    /\ qpt' = [qpt EXCEPT !.psi = SymBackward(@)]
    /\ pc' = IF LPTorder >= 2 THEN "QptKick" ELSE "QptRho"
    /\ UNCHANGED <<conf, grids, loops, out, particles, snap, aside, calls>>

\* lines 308-310: psi *= exp(i phi2 / (hbar D+))
QptKick ==
    /\ pc = "QptKick"
    /\ qpt' = [qpt EXCEPT !.psi.ops =
                 Append(@, Op("mul_exp", <<"psi", "phi2">>, <<qpt.psi.space, grids["phi2"].space>>))]
    /\ pc' = "QptRho"
    /\ UNCHANGED <<conf, grids, loops, out, particles, snap, aside, calls>>

\* lines 316-319: rho = |psi|^2 - 1
QptRho ==
    /\ pc = "QptRho"
    /\ qpt' = [qpt EXCEPT !.rho.ops = <<Op("norm2_minus_1", <<"psi">>, <<qpt.psi.space>>)>>]
    /\ pc' = "QptWriteRho"
    /\ UNCHANGED <<conf, grids, loops, out, particles, snap, aside, calls>>

\* a call of the output plugin
PluginCall(fn, grid, species, what) == [fn |-> fn, grid |-> grid, species |-> species, what |-> what]

\* fluid_component of a displacement / velocity axis
DisplacementComponent(d) == IF d = 0 THEN "dx" ELSE IF d = 1 THEN "dy" ELSE "dz"
VelocityComponent(d) == IF d = 0 THEN "vx" ELSE IF d = 1 THEN "vy" ELSE "vz"

\* lines 321-323
QptWriteRho ==
    /\ pc = "QptWriteRho"
    /\ out' = Append(out, PluginCall("write_grid_data", "rho", this_species, "density"))
    /\ qpt' = [qpt EXCEPT !.rho = SymBackward(@)]
    /\ idim' = 0
    /\ pc' = "QptGrad"
    /\ UNCHANGED <<conf, grids, sp, ci, particles, snap, aside, calls>>

\* lines 330-337: grad_psi from psi by multiplying the modes with i k_d
QptGrad ==
    /\ pc = "QptGrad"
    /\ qpt' = [qpt EXCEPT
                 !.grad_psi = SymBackward(
                     [space |-> "k",
                      ops |-> <<Op("copy_from", <<"psi">>, <<qpt.psi.space>>),
                                Op("fft", <<>>, <<>>),
                                Op("mul_ik", <<VelocityComponent(idim)>>, <<"k">>)>>]),
                 !.psi = SymBackward(@)]
    /\ pc' = "QptVel"
    /\ UNCHANGED <<conf, grids, loops, out, particles, snap, aside, calls>>

\* what one cell of psi, grad_psi and rho may hold when the velocity is formed, and the
\* values of a positive hbar
CellSamples ==
    [psi : {COne, <<1, 1, 1>>}, grad_psi : {CImag, <<1, 2, 1>>}, rho : {CZero, COne},
     hbar : {CFrac(1, 2), CInt(2)}]

\* the velocity without the division by 1 + rho
QptVelocity_DensityIgnored(ppsi, pgrad_psi, prho, hb) ==
    CRe(CDiv(CSub(CMul(CConj(ppsi), pgrad_psi), CMul(ppsi, CConj(pgrad_psi))),
             CMul(CImag, CDivR(CInt(2), hb))))

\* lines 340-341: the lambda handed to tmp.assign_function_of_grids_r, hb being hbar > 0
QptVelocity(ppsi, pgrad_psi, prho, hb) ==
    CRe(CDivR(CDiv(CSub(CMul(CConj(ppsi), pgrad_psi), CMul(ppsi, CConj(pgrad_psi))),
                   CMul(CImag, CDivR(CInt(2), hb))),
              CAdd(COne, prho)))

\* lines 339-344: the velocity component into tmp, and out to the plugin; with hbar = 0
\* the divisor 2.0/hbar is no number
QptVel ==
    /\ pc = "QptVel"
    /\ \E c \in CellSamples :
         qpt' = [qpt EXCEPT !.vel =
                   [written |-> TRUE, at |-> c,
                    val |-> IF qpt.hbar = "zero" THEN CNaN
                            ELSE QptVelocity(c.psi, c.grad_psi, c.rho, c.hbar),
                    from |-> <<qpt.psi, qpt.grad_psi, qpt.rho>>]]
    /\ out' = Append(out, PluginCall("write_grid_data", "tmp", this_species, VelocityComponent(idim)))
    /\ idim' = IF idim < 2 THEN idim + 1 ELSE 0
    /\ pc' = IF idim < 2 THEN "QptGrad" ELSE "LagBranch"
    /\ UNCHANGED <<conf, grids, sp, ci, particles, snap, aside, calls>>

(***************************************************************************)
(* The Lagrangian path: particles or displacement / velocity fields.       *)
(***************************************************************************)
\* the_output_plugin->position_unit() and velocity_unit() of the modelled plugin
lunit == CFrac(2, 1)
vunit == CFrac(3, 1)

\* phi.local_size(), and the cells the loops over tmp.size(0..2) visit
local_size == ngrid * ngrid * ngrid

\* particle_container::allocate(n): n slots, nothing written yet; pos and vel keep,
\* per slot and axis, the values written to it
allocate(n) ==
    [n   |-> n,
     ids |-> [s \in 1 .. n |-> <<>>],
     pos |-> [s \in 1 .. n |-> [d \in Dims |-> <<>>]],
     vel |-> [s \in 1 .. n |-> [d \in Dims |-> <<>>]]]

set_id(p, slot, id) == [p EXCEPT !.ids[slot + 1] = Append(@, id)]
set_pos(p, slot, d, v) == [p EXCEPT !.pos[slot + 1][d] = Append(@, v)]
set_vel(p, slot, d, v) == [p EXCEPT !.vel[slot + 1][d] = Append(@, v)]

\* lines 368-379: the id loop from cell number `cell` on, ipcount being the next slot
RECURSIVE IdLoop(_, _, _, _, _, _)
IdLoop(p, cell, ncells, ipcount, ipcount0, bcc) ==
    IF cell = ncells THEN p
    ELSE LET p1 == set_id(p, ipcount, ipcount + ipcount0)
         IN  IF bcc
             THEN IdLoop(set_id(p1, ipcount + 1, ipcount + 1 + ipcount0),
                         cell + 1, ncells, ipcount + 2, ipcount0, bcc)
             ELSE IdLoop(p1, cell + 1, ncells, ipcount + 1, ipcount0, bcc)

\* the id offset taken as the local offset also on a BCC lattice
GenerateIds_OffsetNotDoubled(ncells, local_offset, bcc) ==
    LET p == allocate(IF bcc THEN 2 * ncells ELSE ncells)
    IN  IdLoop(p, 0, ncells, 0, local_offset, bcc)

\* lines 361-379: allocate the container and generate the particle ids
GenerateIds(ncells, local_offset, bcc) ==
    LET p == allocate(IF bcc THEN 2 * ncells ELSE ncells)
        ipcount0 == (IF bcc THEN 2 ELSE 1) * local_offset
    IN  IdLoop(p, 0, ncells, 0, ipcount0, bcc)

\* get_unit_r(i,j,k)[d] and get_unit_r_staggered(i,j,k)[d] on one rank
get_unit_r(idx, d) == CFrac(Coord(idx, d), ngrid)
get_unit_r_staggered(idx, d) == CFrac(2 * Coord(idx, d) + 1, 2 * ngrid)

\* a loop over the cells, ipcount starting at first: set_pos / set_vel of the
\* cell's value vals[idx + 1] into slot ipcount++
RECURSIVE StoreLoop(_, _, _, _, _, _)
StoreLoop(p, idx, first, d, what, vals) ==
    IF idx = local_size THEN p
    ELSE StoreLoop(IF what = "pos" THEN set_pos(p, first + idx, d, vals[idx + 1])
                                   ELSE set_vel(p, first + idx, d, vals[idx + 1]),
                   idx + 1, first, d, what, vals)

\* exp(i pi n / N) for N = 2: i to the power n
StaggerPhase(n) ==
    CASE n % 4 = 0 -> COne
      [] n % 4 = 1 -> CImag
      [] n % 4 = 2 -> CNeg(COne)
      [] n % 4 = 3 -> CNeg(CImag)

\* stagger_field: the half-cell shift, applied in k-space; the grid comes back in
\* real state
stagger_field(gr) ==
    LET k == FourierTransformForward(gr, TRUE)
        shifted == [k EXCEPT !.buf = Tab(LAMBDA idx :
                       CMul(StaggerPhase(WaveNo(Coord(idx, 0)) + WaveNo(Coord(idx, 1))
                                         + WaveNo(Coord(idx, 2))),
                            k.buf[idx + 1]))]
    IN  FourierTransformBackward(shifted, TRUE)

\* kelem(idx) of a grid: the raw buffer, whatever the state flag
kelem(G, n, idx) == G[n].buf[idx + 1]

\* line 396
phitot(G, idx) ==
    CAdd(CAdd(kelem(G, "phi", idx), kelem(G, "phi2", idx)),
         CAdd(kelem(G, "phi3a", idx), kelem(G, "phi3b", idx)))

\* k_d' A[d''] - k_d'' A[d']
CurlA(G, idx, d) ==
    LET dp == (d + 1) % 3
        dpp == (d + 2) % 3
    IN  CSub(CMul(get_k(idx, dp), kelem(G, A3(dpp), idx)),
             CMul(get_k(idx, dpp), kelem(G, A3(dp), idx)))

\* the displacement mode with the transverse part of the opposite sign
DisplacementMode_CurlReversed(G, idx, d) ==
    CDivR(CMul(CMul(lunit, CImag), CSub(CMul(get_k(idx, d), phitot(G, idx)), CurlA(G, idx, d))),
          CInt(boxlen))

\* line 398: the displacement mode written to tmp.kelem(idx)
DisplacementMode(G, idx, d) ==
    CDivR(CMul(CMul(lunit, CImag), CAdd(CMul(get_k(idx, d), phitot(G, idx)), CurlA(G, idx, d))),
          CInt(boxlen))

\* lines 453-459: the velocity mode written to tmp.kelem(idx)
VelocityMode(G, idx, d, symplectic) ==
    IF ~symplectic
    THEN LET phitot_v == CAdd(CAdd(CMul(vfac1, kelem(G, "phi", idx)),
                                   CMul(vfac2, kelem(G, "phi2", idx))),
                              CMul(vfac3, CAdd(kelem(G, "phi3a", idx), kelem(G, "phi3b", idx))))
         IN  CDivR(CMul(CMul(vunit, CImag),
                        CAdd(CMul(get_k(idx, d), phitot_v), CMul(vfac3, CurlA(G, idx, d)))),
                   CInt(boxlen))
    ELSE LET phitot_v == CAdd(CMul(vfac1, kelem(G, "phi", idx)),
                              CMul(vfac2, kelem(G, "phi2", idx)))
         IN  CAdd(CMul(CMul(vunit, CImag), CMul(get_k(idx, d), phitot_v)),
                  CMul(vfac1, kelem(G, A3(d), idx)))

\* lines 348-349
LagBranch ==
    /\ pc = "LagBranch"
    /\ pc' = IF output_type \in {"particles", "field_lagrangian"} THEN "PartAlloc" ELSE "SpeciesEnd"
    /\ UNCHANGED <<conf, grids, loops, sinks, snap, aside>>

\* lines 354-380: the particle container, with its ids when particles are written
PartAlloc ==
    /\ pc = "PartAlloc"
    /\ particles' = IF output_type = "particles"
                    THEN GenerateIds(local_size, 0, initial_bcc_lattice)
                    ELSE allocate(0)
    /\ idim' = 0
    /\ pc' = "PosFTF"
    /\ UNCHANGED <<conf, grids, sp, ci, out, qpt, snap, aside, calls>>

\* line 387
PosFTF ==
    /\ pc = "PosFTF"
    /\ grids' = [grids EXCEPT !["tmp"] = FourierTransformForward(@, FALSE)]
    /\ pc' = "PosFill"
    /\ UNCHANGED <<conf, loops, sinks, snap, aside>>

\* the displacement modes written into phi instead of tmp
PosFill_IntoPhi ==
    /\ pc = "PosFill"
    /\ grids' = [grids EXCEPT !["phi"].buf = Tab(LAMBDA idx : DisplacementMode(grids, idx, idim))]
    /\ pc' = "PosFTB"
    /\ UNCHANGED <<conf, loops, sinks, snap, aside>>

\* lines 391-401
PosFill ==
    /\ pc = "PosFill"
    /\ grids' = [grids EXCEPT !["tmp"].buf = Tab(LAMBDA idx : DisplacementMode(grids, idx, idim))]
    /\ pc' = "PosFTB"
    /\ UNCHANGED <<conf, loops, sinks, snap, aside>>

\* lines 402-405 and 431
PosFTB ==
    /\ pc = "PosFTB"
    /\ grids' = [grids EXCEPT !["tmp"] = FourierTransformBackward(@, TRUE)]
    /\ pc' = IF output_type = "particles" THEN "PosStore" ELSE "PosWrite"
    /\ UNCHANGED <<conf, loops, sinks, snap, aside>>

\* the step after the body of a position loop iteration
PosNext == IF idim < 2 THEN "PosFTF" ELSE "VelFTF"

\* lines 407-416
PosStore ==
    /\ pc = "PosStore"
    /\ particles' = StoreLoop(particles, 0, 0, idim, "pos",
                        Tab(LAMBDA idx : CAdd(CMul(get_unit_r(idx, idim), lunit),
                                              grids["tmp"].buf[idx + 1])))
    /\ idim' = IF initial_bcc_lattice THEN idim ELSE (idim + 1) % 3
    /\ pc' = IF initial_bcc_lattice THEN "PosStagger" ELSE PosNext
    /\ UNCHANGED <<conf, grids, sp, ci, out, qpt, snap, aside, calls>>

\* line 417
PosStagger ==
    /\ pc = "PosStagger"
    /\ grids' = [grids EXCEPT !["tmp"] = stagger_field(@)]
    /\ pc' = "PosStoreBcc"
    /\ UNCHANGED <<conf, loops, sinks, snap, aside>>

\* the second sublattice stored on the sites of the first
PosStoreBcc_PrimarySites ==
    /\ pc = "PosStoreBcc"
    /\ particles' = StoreLoop(particles, 0, local_size, idim, "pos",
                        Tab(LAMBDA idx : CAdd(CMul(get_unit_r(idx, idim), lunit),
                                              grids["tmp"].buf[idx + 1])))
    /\ idim' = (idim + 1) % 3
    /\ pc' = PosNext
    /\ UNCHANGED <<conf, grids, sp, ci, out, qpt, snap, aside, calls>>

\* lines 418-426
PosStoreBcc ==
    /\ pc = "PosStoreBcc"
    /\ particles' = StoreLoop(particles, 0, local_size, idim, "pos",
                        Tab(LAMBDA idx : CAdd(CMul(get_unit_r_staggered(idx, idim), lunit),
                                              grids["tmp"].buf[idx + 1])))
    /\ idim' = (idim + 1) % 3
    /\ pc' = PosNext
    /\ UNCHANGED <<conf, grids, sp, ci, out, qpt, snap, aside, calls>>

\* lines 431-435
PosWrite ==
    /\ pc = "PosWrite"
    /\ out' = Append(out, PluginCall("write_grid_data", "tmp", this_species,
                                     DisplacementComponent(idim)))
    /\ idim' = (idim + 1) % 3
    /\ pc' = PosNext
    /\ UNCHANGED <<conf, grids, sp, ci, particles, qpt, snap, aside, calls>>

\* line 444
VelFTF ==
    /\ pc = "VelFTF"
    /\ grids' = [grids EXCEPT !["tmp"] = FourierTransformForward(@, FALSE)]
    /\ pc' = "VelFill"
    /\ UNCHANGED <<conf, loops, sinks, snap, aside>>

\* lines 447-462
VelFill ==
    /\ pc = "VelFill"
    /\ grids' = [grids EXCEPT !["tmp"].buf =
                    Tab(LAMBDA idx : VelocityMode(grids, idx, idim, bSymplecticPT))]
    /\ pc' = "VelFTB"
    /\ UNCHANGED <<conf, loops, sinks, snap, aside>>

\* lines 463-466 and 487
VelFTB ==
    /\ pc = "VelFTB"
    /\ grids' = [grids EXCEPT !["tmp"] = FourierTransformBackward(@, TRUE)]
    /\ pc' = IF output_type = "particles" THEN "VelStore" ELSE "VelWrite"
    /\ UNCHANGED <<conf, loops, sinks, snap, aside>>

\* the velocity loop followed by write_particle_data whatever the output type
VelNext_AlwaysParticles == IF idim < 2 THEN "VelFTF" ELSE "WriteParticles"

\* the step after the body of a velocity loop iteration (lines 494 and 499)
VelNext ==
    IF idim < 2 THEN "VelFTF"
    ELSE IF output_type = "particles" THEN "WriteParticles" ELSE "DensFFT"

\* lines 467-475
VelStore ==
    /\ pc = "VelStore"
    /\ particles' = StoreLoop(particles, 0, 0, idim, "vel", grids["tmp"].buf)
    /\ idim' = IF initial_bcc_lattice THEN idim ELSE (idim + 1) % 3
    /\ pc' = IF initial_bcc_lattice THEN "VelStagger" ELSE VelNext
    /\ UNCHANGED <<conf, grids, sp, ci, out, qpt, snap, aside, calls>>

\* line 476
VelStagger ==
    /\ pc = "VelStagger"
    /\ grids' = [grids EXCEPT !["tmp"] = stagger_field(@)]
    /\ pc' = "VelStoreBcc"
    /\ UNCHANGED <<conf, loops, sinks, snap, aside>>

\* lines 477-484
VelStoreBcc ==
    /\ pc = "VelStoreBcc"
    /\ particles' = StoreLoop(particles, 0, local_size, idim, "vel", grids["tmp"].buf)
    /\ idim' = (idim + 1) % 3
    /\ pc' = VelNext
    /\ UNCHANGED <<conf, grids, sp, ci, out, qpt, snap, aside, calls>>

\* lines 487-491
VelWrite ==
    /\ pc = "VelWrite"
    /\ out' = Append(out, PluginCall("write_grid_data", "tmp", this_species,
                                     VelocityComponent(idim)))
    /\ idim' = (idim + 1) % 3
    /\ pc' = VelNext
    /\ UNCHANGED <<conf, grids, sp, ci, particles, qpt, snap, aside, calls>>

\* lines 494-497
WriteParticles ==
    /\ pc = "WriteParticles"
    /\ out' = Append(out, PluginCall("write_particle_data", "particles", this_species, "particles"))
    /\ pc' = "SpeciesEnd"
    /\ UNCHANGED <<conf, grids, loops, particles, qpt, snap, aside, calls>>

\* line 502: density simply from first order SPT
DensFFT ==
    /\ pc = "DensFFT"
    /\ grids' = [grids EXCEPT !["phi"] = FourierTransformForward(@, TRUE)]
    /\ pc' = "DensNegLap"
    /\ UNCHANGED <<conf, loops, sinks, snap, aside>>

\* line 503
DensNegLap ==
    /\ pc = "DensNegLap"
    /\ grids' = [grids EXCEPT !["phi"] = apply_negative_Laplacian(@)]
    /\ pc' = "DensFTB"
    /\ UNCHANGED <<conf, loops, sinks, snap, aside>>

\* line 505
DensFTB ==
    /\ pc = "DensFTB"
    /\ grids' = [grids EXCEPT !["phi"] = FourierTransformBackward(@, TRUE)]
    /\ pc' = "DensWrite"
    /\ UNCHANGED <<conf, loops, sinks, snap, aside>>

\* line 506
DensWrite ==
    /\ pc = "DensWrite"
    /\ out' = Append(out, PluginCall("write_grid_data", "phi", this_species, "density"))
    /\ pc' = "SpeciesEnd"
    /\ UNCHANGED <<conf, grids, loops, particles, qpt, snap, aside, calls>>

\* lines 108 and 509: the locals of the iteration end with it; the next species, or
\* the end of Run
SpeciesEnd ==
    /\ pc = "SpeciesEnd"
    /\ sp' = IF sp < Len(species_list) THEN sp + 1 ELSE sp
    /\ pc' = IF sp < Len(species_list) THEN "FillGrid" ELSE "Done"
    /\ qpt' = NoQpt
    /\ UNCHANGED <<conf, grids, idim, ci, out, particles, calls, snap, aside>>

RunNext ==
    \/ ReadParams \/ Override \/ Coeffs
    \/ FillGrid \/ PhiFFT \/ PhiAmp \/ PhiZeroDC
    \/ Phi2Branch \/ Phi2FTF \/ Phi2Conv \/ Phi2InvLap
    \/ Phi3Branch \/ Phi3aFTF \/ Phi3aConv \/ Phi3aInvLap
    \/ Phi3bFTF \/ Phi3bConv \/ Phi3bInvLap \/ Phi3bHalf
    \/ A3FTF \/ A3Conv \/ A3InvLap
    \/ SympBranch \/ VnloFTF \/ VnloConv
    \/ Scale \/ AllocTmp \/ Dispatch
    \/ QptPhiFTB \/ QptPsiBranch \/ QptPsiInit1 \/ QptPhi2FTB \/ QptPsiInit2 \/ QptPsiFFT
    \/ QptDrift \/ QptPsiFTB \/ QptKick \/ QptRho \/ QptWriteRho \/ QptGrad \/ QptVel
    \/ LagBranch \/ PartAlloc
    \/ PosFTF \/ PosFill \/ PosFTB \/ PosStore \/ PosStagger \/ PosStoreBcc \/ PosWrite
    \/ VelFTF \/ VelFill \/ VelFTB \/ VelStore \/ VelStagger \/ VelStoreBcc \/ VelWrite
    \/ WriteParticles \/ DensFFT \/ DensNegLap \/ DensFTB \/ DensWrite
    \/ SpeciesEnd

(***************************************************************************)
(* The start-up of main (src/src/main.cc).                                 *)
(***************************************************************************)
RequiredKeys == {"GridRes", "BoxLength", "zstart"}
PluginKinds == {"RNG", "TransferFunction", "output"}

\* the state of the whole program while main runs: Run's variables are not in use
RunIdle ==
    /\ pc = "off"
    /\ cfg = [order |-> [present |-> FALSE, val |-> 0], SymplecticPT |-> FALSE,
              BCClattice |-> FALSE, DoFixing |-> FALSE, alloc |-> ZeroBuf, noise |-> "white"]
    /\ species_as = [s \in {"dm", "baryon"} |-> "unasked"]
    /\ LPTorder = 0
    /\ g = Coefficients(0)
    /\ grids = [n \in GridNames |-> NewGrid(ZeroBuf)]
    /\ sp = 1
    /\ idim = 0
    /\ ci = 1
    /\ out = <<>>
    /\ particles = NoParticles
    /\ qpt = NoQpt
    /\ snap = [pre |-> grids, post |-> grids]
    /\ calls = <<>>

runVars == <<pc, cfg, species_as, LPTorder, g, grids, sp, idim, ci, out, particles, qpt, snap, calls>>

\* a process is started with its command line, its parameter file and the plugins
\* the file names being as they are
InitMain ==
    /\ RunIdle
    /\ ranks = NoRanks
    /\ mainst \in [pc : {"Args"}, argc : 1 .. MaxArgc, file_ok : BOOLEAN,
                   keys : SUBSET RequiredKeys, plugins : SUBSET PluginKinds,
                   status : {-1}, log : {<<>>}, ran : {FALSE}, order : OrderItems, step : {1},
                   grids : {[n \in GridNames |-> NewGrid(ZeroBuf)]}, calls : {<<>>},
                   out : {<<>>}]

\* exit(status) / return status from main
Exit(m, status, message) ==
    [m EXCEPT !.pc = "exited", !.status = status,
              !.log = IF message = "" THEN @ ELSE Append(@, message)]

\* the exit status main leaves with when no parameter file is given (line 97)
UsageExitStatus == 0

\* lines 89-98: the command line
MainArgs ==
    /\ mainst.pc = "Args"
    /\ mainst' = IF mainst.argc # 2
                 THEN Exit(mainst, UsageExitStatus,
                           "In order to run, you need to specify a parameter file!")
                 ELSE [mainst EXCEPT !.pc = "Config"]
    /\ UNCHANGED <<runVars, ranks>>

\* ConfigFile's way out of a parameter file that cannot be loaded or lacks a key
ConfigError(m, message) == Exit(m, 1, message)

\* line 103: ConfigFile the_config(argv[1])
MainConfig ==
    /\ mainst.pc = "Config"
    /\ mainst' = IF ~mainst.file_ok
                 THEN ConfigError(mainst, "could not open the parameter file")
                 ELSE [mainst EXCEPT !.pc = "Required"]
    /\ UNCHANGED <<runVars, ranks>>

\* lines 105-107: GetValue of the required keys
MainRequired ==
    /\ mainst.pc = "Required"
    /\ mainst' = IF mainst.keys # RequiredKeys
                 THEN ConfigError(mainst, "required key not found")
                 ELSE [mainst EXCEPT !.pc = "Plugins"]
    /\ UNCHANGED <<runVars, ranks>>

\* the exit status of the catch block (line 132)
InitFailureStatus == 1

\* lines 121-133: plugin selection; any exception ends main with status 1
MainPlugins ==
    /\ mainst.pc = "Plugins"
    /\ mainst' = IF mainst.plugins # PluginKinds
                 THEN Exit(mainst, InitFailureStatus,
                           "Problem during initialisation. See error(s) above. Exiting...")
                 ELSE [mainst EXCEPT !.pc = "Pipeline"]
    /\ UNCHANGED <<runVars, ranks>>

\* line 108: the order main assumes when the configuration names none
MainDefaultLPTorder == 100

\* an instruction of main's computation: an operation on grid dst
Ins(op, dst) == [op |-> op, dst |-> dst]
InsCall(c) == [op |-> "convolve", dst |-> c.dst, call |-> c]
InsAxis(op, d) == [op |-> op, dst |-> "tmp", d |-> d]

\* lines 248-256: the transversal term of main for axis d
MainA3Calls(d) ==
    LET dp == (d + 1) % 3
        dpp == (d + 2) % 3
    IN  << InsCall(Call2("Hessians", "phi", <<d,dp>>, "phi2", <<d,dpp>>, "assign_op", A3(d))),
           InsCall(Call2("Hessians", "phi", <<d,dpp>>, "phi2", <<d,dp>>, "sub_op", A3(d))),
           InsCall(Call3("DifferenceOfHessians", "phi2", <<dp,dpp>>, "phi", <<dp,dp>>,
                         "phi", <<dpp,dpp>>, "add_op", A3(d))),
           InsCall(Call3("DifferenceOfHessians", "phi", <<dp,dpp>>, "phi2", <<dp,dp>>,
                         "phi2", <<dpp,dpp>>, "sub_op", A3(d))),
           Ins("apply_InverseLaplacian", A3(d)) >>

\* lines 396-418, 421-443: one turn of the position / velocity loop of main
MainEmit(what, d) ==
    << Ins("FourierTransformForward(false)", "tmp"), InsAxis(what, d),
       Ins("FourierTransformBackward", "tmp"),
       InsAxis(IF what = "displacement" THEN "write_dm_position" ELSE "write_dm_velocity", d) >>

\* lines 185-448 of main, statement by statement
MainProgram ==
    << Ins("Fill_Grid", "phi"), Ins("FourierTransformForward", "phi"),
       Ins("amplitude", "phi"), Ins("zero_DC_mode", "phi"),
       InsCall(Call3("SumOfHessians", "phi", <<0,0>>, "phi", <<1,1>>, "phi", <<2,2>>, "assign_op", "phi2")),
       InsCall(Call2("Hessians", "phi", <<1,1>>, "phi", <<2,2>>, "add_op", "phi2")),
       InsCall(Call2("Hessians", "phi", <<0,1>>, "phi", <<0,1>>, "sub_op", "phi2")),
       InsCall(Call2("Hessians", "phi", <<0,2>>, "phi", <<0,2>>, "sub_op", "phi2")),
       InsCall(Call2("Hessians", "phi", <<1,2>>, "phi", <<1,2>>, "sub_op", "phi2")),
       Ins("apply_InverseLaplacian", "phi2"),
       InsCall(Call3("Hessians3", "phi", <<0,0>>, "phi", <<1,1>>, "phi", <<2,2>>, "assign_op", "phi3a")),
       InsCall(Call3("Hessians3", "phi", <<0,1>>, "phi", <<0,2>>, "phi", <<1,2>>, "add2_op", "phi3a")),
       InsCall(Call3("Hessians3", "phi", <<1,2>>, "phi", <<1,2>>, "phi", <<0,0>>, "sub_op", "phi3a")),
       InsCall(Call3("Hessians3", "phi", <<0,2>>, "phi", <<0,2>>, "phi", <<1,1>>, "sub_op", "phi3a")),
       InsCall(Call3("Hessians3", "phi", <<0,1>>, "phi", <<0,1>>, "phi", <<2,2>>, "sub_op", "phi3a")),
       Ins("apply_InverseLaplacian", "phi3a"),
       InsCall(Call3("SumOfHessians", "phi", <<0,0>>, "phi2", <<1,1>>, "phi2", <<2,2>>, "assign_op", "phi3b")),
       InsCall(Call3("SumOfHessians", "phi", <<1,1>>, "phi2", <<2,2>>, "phi2", <<0,0>>, "add_op", "phi3b")),
       InsCall(Call3("SumOfHessians", "phi", <<2,2>>, "phi2", <<0,0>>, "phi2", <<1,1>>, "add_op", "phi3b")),
       InsCall(Call2("Hessians", "phi", <<0,1>>, "phi2", <<0,1>>, "sub2_op", "phi3b")),
       InsCall(Call2("Hessians", "phi", <<0,2>>, "phi2", <<0,2>>, "sub2_op", "phi3b")),
       InsCall(Call2("Hessians", "phi", <<1,2>>, "phi2", <<1,2>>, "sub2_op", "phi3b")),
       Ins("apply_InverseLaplacian", "phi3b"), Ins("multiply by 0.5", "phi3b") >>
    \o MainA3Calls(0) \o MainA3Calls(1) \o MainA3Calls(2)
    \o << Ins("scale", "phi"), Ins("Grid_FFT", "tmp") >>
    \o MainEmit("displacement", 0) \o MainEmit("displacement", 1) \o MainEmit("displacement", 2)
    \o MainEmit("velocity", 0) \o MainEmit("velocity", 1) \o MainEmit("velocity", 2)
    \o << Ins("write_dm_mass", "tmp"), Ins("write_dm_density", "tmp"), Ins("finalize", "tmp") >>

\* line 412: the displacement mode of main
MainDisplacementMode(G, idx, d) ==
    CDivR(CMul(CImag, CAdd(CMul(get_k(idx, d), phitot(G, idx)), CurlA(G, idx, d))), CInt(boxlen))

\* lines 434-437: the velocity mode of main
MainVelocityMode(G, idx, d) ==
    LET phitot_v == CAdd(CAdd(CMul(vfac1, kelem(G, "phi", idx)),
                              CMul(vfac2, kelem(G, "phi2", idx))),
                         CMul(vfac3, CAdd(kelem(G, "phi3a", idx), kelem(G, "phi3b", idx))))
    IN  CDivR(CMul(CImag, CAdd(CMul(get_k(idx, d), phitot_v), CMul(vfac3, CurlA(G, idx, d)))),
              CInt(boxlen))

\* the grids of main after instruction ins; order is main's LPTorder (lines 108, 150-154)
MainGrids(ins, G, order) ==
    CASE ins.op = "Fill_Grid" -> [G EXCEPT ![ins.dst] = Fill_Grid(@, 1)]
      [] ins.op = "FourierTransformForward" ->
            [G EXCEPT ![ins.dst] = FourierTransformForward(@, TRUE)]
      [] ins.op = "FourierTransformForward(false)" ->
            [G EXCEPT ![ins.dst] = FourierTransformForward(@, FALSE)]
      [] ins.op = "FourierTransformBackward" ->
            [G EXCEPT ![ins.dst] = FourierTransformBackward(@, TRUE)]
      [] ins.op = "amplitude" ->
            [G EXCEPT ![ins.dst].buf = Tab(LAMBDA idx : PhiAmplitude(G[ins.dst].buf[idx + 1], idx, FALSE))]
      [] ins.op = "zero_DC_mode" -> [G EXCEPT ![ins.dst] = zero_DC_mode(@)]
      [] ins.op = "convolve" -> ExecCall(ins.call, G)
      [] ins.op = "apply_InverseLaplacian" -> [G EXCEPT ![ins.dst] = apply_InverseLaplacian(@)]
      [] ins.op = "multiply by 0.5" -> [G EXCEPT ![ins.dst] = ScaleGrid(@, CFrac(1, 2))]
      [] ins.op = "scale" -> ScalePotentials(G, Coefficients(order))
      [] ins.op = "Grid_FFT" -> [G EXCEPT ![ins.dst] = NewGrid(ZeroBuf)]
      [] ins.op = "displacement" ->
            [G EXCEPT ![ins.dst].buf = Tab(LAMBDA idx : MainDisplacementMode(G, idx, ins.d))]
      [] ins.op = "velocity" ->
            [G EXCEPT ![ins.dst].buf = Tab(LAMBDA idx : MainVelocityMode(G, idx, ins.d))]
      [] OTHER -> G

\* lines 134-450: the computation and the output, one statement at a time
MainPipeline ==
    /\ mainst.pc = "Pipeline"
    /\ LET ins == MainProgram[mainst.step]
           last == mainst.step = Len(MainProgram)
       IN  mainst' = [mainst EXCEPT
              !.grids = MainGrids(ins, @, GetValueSafe(mainst.order, MainDefaultLPTorder)),
              !.calls = IF ins.op = "convolve"
                        THEN Append(@, Logged("convolve_" \o ins.call.prim, ins.dst, ins.call.w))
                        ELSE IF ins.op = "apply_InverseLaplacian"
                        THEN Append(@, Logged(ins.op, ins.dst, ""))
                        ELSE IF ins.op = "multiply by 0.5"
                        THEN Append(@, Logged("multiply", ins.dst, "0.5"))
                        ELSE IF ins.op = "scale" THEN Append(@, Logged("scale", "all", ""))
                        ELSE @,
              !.out = IF ins.op \in {"write_dm_position", "write_dm_velocity", "write_dm_mass",
                                     "write_dm_density", "finalize"}
                      THEN Append(@, ins) ELSE @,
              !.step = IF last THEN @ ELSE @ + 1,
              !.pc = IF last THEN "Return" ELSE @,
              !.ran = last]
    /\ UNCHANGED <<runVars, ranks>>

\* line 461
MainReturn ==
    /\ mainst.pc = "Return"
    /\ mainst' = Exit(mainst, 0, "")
    /\ UNCHANGED <<runVars, ranks>>

MainNext == MainArgs \/ MainConfig \/ MainRequired \/ MainPlugins \/ MainPipeline \/ MainReturn

SpecMain == InitMain /\ [][MainNext]_vars

(***************************************************************************)
(* The particle ids over the ranks of an MPI run: rank r owns slabs[r]     *)
(* slabs of n * n cells and runs lines 354-380 on its own.                 *)
(***************************************************************************)
RECURSIVE SumSeq(_, _)
SumSeq(q, upto) == IF upto = 0 THEN 0 ELSE q[upto] + SumSeq(q, upto - 1)

\* the slab decompositions of n slabs over r ranks
Decompositions(r, n) == {q \in [1 .. r -> 0 .. n] : SumSeq(q, r) = n}

InitIds ==
    /\ RunIdle
    /\ mainst = NoMain
    /\ \E r \in 1 .. MaxRanks, n \in 1 .. MaxSlabs, b \in BOOLEAN :
       \E q \in Decompositions(r, n) :
         ranks = [pc |-> "ids", bcc |-> b, n |-> n, slabs |-> q,
                  done |-> [i \in 1 .. r |-> FALSE],
                  parts |-> [i \in 1 .. r |-> NoParticles]]

\* phi.local_size() on rank r
RankCells(rk, r) == rk.slabs[r] * rk.n * rk.n

\* particles.get_local_offset() on rank r: the cells owned by the lower ranks
get_local_offset(rk, r) == SumSeq([i \in 1 .. Len(rk.slabs) |-> RankCells(rk, i)], r - 1)

\* lines 354-380 on rank r
RankGenerateIds(r) ==
    /\ ranks.pc = "ids"
    /\ ~ranks.done[r]
    /\ ranks' = [ranks EXCEPT
                   !.done[r] = TRUE,
                   !.parts[r] = GenerateIds(RankCells(ranks, r), get_local_offset(ranks, r),
                                            ranks.bcc)]
    /\ UNCHANGED <<runVars, mainst>>

IdsNext == \E r \in 1 .. Len(ranks.slabs) : RankGenerateIds(r)

SpecIds == InitIds /\ [][IdsNext]_vars


(***************************************************************************)
(* The properties of ic_generator::Run and of main.                        *)
(***************************************************************************)
\* the steps of Run that come after the override of lines 54-57
AfterOverride == pc \notin {"off", "ReadParams", "Override"}

\* the steps of the 3LPT branch (lines 182-223)
Phi3Steps == {"Phi3aFTF", "Phi3aConv", "Phi3aInvLap", "Phi3bFTF", "Phi3bConv", "Phi3bInvLap",
              "Phi3bHalf", "A3FTF", "A3Conv", "A3InvLap"}

\* C1: with SymplecticPT the order is 2 in every step after the override, whatever
\* setup.LPTorder was: the coefficients are those of order 2, the 3LPT branch is
\* never entered and the semiclassical path takes its LPTorder >= 2 case
C1_SymplecticOrderIsTwo ==
    (bSymplecticPT /\ AfterOverride) =>
        /\ LPTorder = 2
        /\ pc # "Coeffs" => g = Coefficients(2)
        /\ pc \notin Phi3Steps
        /\ pc # "QptPsiInit1"

\* a symplectic run configured with order 3 reaches the semiclassical psi of order 2
C1_Witness ==
    /\ bSymplecticPT
    /\ cfg.order.present /\ cfg.order.val = 3
    /\ pc = "QptPsiInit2"
    /\ LPTorder = 2

\* the run goes on with one of the documented orders
DocumentedOrder == LPTorder \in {1, 2, 3}

\* C2: after the parameters are read the order is one of 1, 2, 3 for every
\* configured value of setup.LPTorder, so no later branch sees another order
C2_OrderIsOneTwoOrThree == AfterOverride => DocumentedOrder

\* main ended although its start-up failed
InitFailure(m) ==
    \/ m.argc # 2
    \/ ~m.file_ok
    \/ m.keys # RequiredKeys
    \/ m.plugins # PluginKinds

\* C3: an initialisation failure ends main with exit status 1 after a diagnostic,
\* and exit status 0 is returned only after a completed run
C3_InitFailureExitsWithOne ==
    mainst.pc = "exited" =>
        /\ InitFailure(mainst) => (mainst.status = 1 /\ Len(mainst.log) > 0)
        /\ mainst.status = 0 => (~InitFailure(mainst) /\ mainst.ran)

\* C4: the forward transforms of phi that transform data (lines 127 and 502) find
\* phi in real state, in both species iterations and for every output type
C4_ForwardFFTOnRealGrid ==
    (pc \in {"PhiFFT", "DensFFT"} /\ DocumentedOrder) => grids["phi"].space = "r"

\* C5: where the emission loops read kelem of the cascade's fields (lines 396-398
\* and 453-459) every one of those grids is flagged k-space
C5_KelemReadsInKSpace ==
    (pc \in {"PosFill", "VelFill"} /\ DocumentedOrder) => \A n \in CascadeGrids : grids[n].space = "k"

\* the steps from the end of the growth scaling to the end of the species iteration
EmissionSteps ==
    {"AllocTmp", "Dispatch", "QptPhiFTB", "QptPsiBranch", "QptPsiInit1", "QptPhi2FTB",
     "QptPsiInit2", "QptPsiFFT", "QptDrift", "QptPsiFTB", "QptKick", "QptRho", "QptWriteRho",
     "QptGrad", "QptVel", "LagBranch", "PartAlloc", "PosFTF", "PosFill", "PosFTB", "PosStore",
     "PosStagger", "PosStoreBcc", "PosWrite", "VelFTF", "VelFill", "VelFTB", "VelStore",
     "VelStagger", "VelStoreBcc", "VelWrite", "WriteParticles", "DensFFT", "DensNegLap",
     "DensFTB", "DensWrite", "SpeciesEnd", "Done"}

\* grid n is, data and flag, as the growth scaling left it
AsScaled(n) == grids[n] = snap.post[n]

\* C6 as claimed: emission leaves data and flag of all seven fields as the growth
\* scaling left them, for each output type
C6_EmissionOnlyReads ==
    (pc \in EmissionSteps /\ DocumentedOrder) => \A n \in CascadeGrids : AsScaled(n)

\* the steps of the field_lagrangian density output after its forward transform
DensitySteps == {"DensNegLap", "DensFTB", "DensWrite"}

\* C6 as amended: emission leaves phi3a, phi3b and A3[0..2] as scaled for every
\* output type; phi2 unless the output is field_eulerian; phi with particle output,
\* and with field_lagrangian output up to the density output of lines 502-505
C6_EmissionKeepsWhatItDoesNotTransform ==
    pc \in EmissionSteps =>
        /\ \A n \in {"phi3a", "phi3b", "A3x", "A3y", "A3z"} : AsScaled(n)
        /\ output_type # "field_eulerian" => AsScaled("phi2")
        /\ output_type \in {"unasked", "particles"} => AsScaled("phi")
        /\ (output_type = "field_lagrangian" /\ pc \in EmissionSteps \ (DensitySteps \cup {"SpeciesEnd", "Done"}))
               => AsScaled("phi")

\* a 3LPT particle run has written its particles with all seven fields as scaled,
\* the fields being non-zero
C6_Witness ==
    /\ pc = "SpeciesEnd"
    /\ output_type = "particles"
    /\ LPTorder > 2 /\ ~bSymplecticPT
    /\ \A n \in CascadeGrids : AsScaled(n)
    /\ grids["phi3a"].buf # ZeroBuf
    /\ grids["A3x"].buf # ZeroBuf

\* the ids rank r has to write: M of them from offset on
RankM(rk, r) == (IF rk.bcc THEN 2 ELSE 1) * RankCells(rk, r)
RankOffset(rk, r) == (IF rk.bcc THEN 2 ELSE 1) * get_local_offset(rk, r)

\* the ids rank r has written
IdsOf(rk, r) == {rk.parts[r].ids[s][1] : s \in 1 .. rk.parts[r].n}

\* C7: a rank writes one id per slot, slot s getting offset + s, M slots in all;
\* once every rank has written, the ids are pairwise distinct over the ranks and
\* are the numbers below N^3, or below 2 N^3 on a BCC lattice
C7_IdsConsecutiveAndDistinct ==
    LET R == 1 .. Len(ranks.slabs)
        total == (IF ranks.bcc THEN 2 ELSE 1) * ranks.n * ranks.n * ranks.n
    IN  ranks.pc = "ids" =>
          /\ \A r \in R : ranks.done[r] =>
                /\ ranks.parts[r].n = RankM(ranks, r)
                /\ \A s \in 1 .. RankM(ranks, r) :
                      ranks.parts[r].ids[s] = <<RankOffset(ranks, r) + s - 1>>
          /\ (\A r \in R : ranks.done[r]) =>
                /\ \A r1, r2 \in R : r1 # r2 => IdsOf(ranks, r1) \cap IdsOf(ranks, r2) = {}
                /\ UNION {IdsOf(ranks, r) : r \in R} = 0 .. total - 1

\* three ranks of a BCC run, two of them owning cells, have all written their ids
C7_Witness ==
    /\ ranks.pc = "ids"
    /\ ranks.bcc
    /\ Len(ranks.slabs) = 3
    /\ ranks.slabs[1] > 0 /\ ranks.slabs[3] > 0
    /\ \A r \in 1 .. 3 : ranks.done[r]
    /\ ranks.parts[3].ids[1] = <<RankOffset(ranks, 3)>>

\* a call of the output plugin as the function called, the species and the component
CallOf(c) == <<c.fn, c.species, c.what>>

\* the calls one species is written with
ExpectedCalls(s, t) ==
    CASE t = "particles" -> <<<<"write_particle_data", s, "particles">>>>
      [] t = "field_lagrangian" ->
            [i \in 1 .. 7 |-> <<"write_grid_data", s,
                                <<"dx", "dy", "dz", "vx", "vy", "vz", "density">>[i]>>]
      [] t = "field_eulerian" ->
            [i \in 1 .. 4 |-> <<"write_grid_data", s, <<"density", "vx", "vy", "vz">>[i]>>]
      [] OTHER -> <<>>

\* the calls the first upto species are written with
RECURSIVE ExpectedLog(_)
ExpectedLog(upto) ==
    IF upto = 0 THEN <<>>
    ELSE ExpectedLog(upto - 1) \o ExpectedCalls(species_list[upto], species_as[species_list[upto]])

IsPrefix(a, b) == Len(a) <= Len(b) /\ a = SubSeq(b, 1, Len(a))

\* every slot of the container has each position and velocity component written once
AllSixStored ==
    \A s \in 1 .. particles.n : \A d \in Dims :
        Len(particles.pos[s][d]) = 1 /\ Len(particles.vel[s][d]) = 1

\* C8: the calls of the output plugin are, species after species (dark matter, then
\* baryons), those write_species_as fixes: at any step a beginning of them, at the
\* end of a species iteration all of them; write_particle_data comes when all six
\* components are stored
C8_PluginCallSequence ==
    LET log == [i \in 1 .. Len(out) |-> CallOf(out[i])]
    IN  /\ IsPrefix(ExpectedLog(sp - 1), log)
        /\ IsPrefix(log, ExpectedLog(sp))
        /\ pc \in {"SpeciesEnd", "Done"} => log = ExpectedLog(sp)
        /\ pc = "WriteParticles" => AllSixStored

\* dark matter written as displacement and velocity fields, then baryons as
\* particles on a BCC lattice
C8_Witness ==
    /\ pc = "Done"
    /\ species_as = [dm |-> "field_lagrangian", baryon |-> "particles"]
    /\ initial_bcc_lattice
    /\ Len(out) = 8
    /\ out[8].fn = "write_particle_data"
    /\ AllSixStored

\* the growth coefficients as documented
DocumentedCoefficients ==
    LET D2 == CMul(Dplus0, Dplus0)
        D3 == CMul(D2, Dplus0)
    IN  [phi |-> CNeg(Dplus0), phi2 |-> CMul(CFrac(-3, 7), D2), phi3a |-> CMul(CFrac(-1, 3), D3),
         phi3b |-> CMul(CFrac(10, 21), D3), A3x |-> CMul(CFrac(-1, 7), D3),
         A3y |-> CMul(CFrac(-1, 7), D3), A3z |-> CMul(CFrac(-1, 7), D3)]

\* the fields the cascade of this iteration has assembled (lines 127-238)
Assembled ==
    {"phi"} \cup (IF LPTorder > 1 \/ bSymplecticPT THEN {"phi2"} ELSE {})
            \cup (IF LPTorder > 2 /\ ~bSymplecticPT THEN {"phi3a", "phi3b"} ELSE {})
            \cup (IF (LPTorder > 2 /\ ~bSymplecticPT) \/ bSymplecticPT
                  THEN {"A3x", "A3y", "A3z"} ELSE {})

\* C9: the growth scaling multiplies every assembled field by its documented
\* coefficient, A[d] by -(1/7) D^3 also in symplectic mode
C9_AssembledFieldsScaled ==
    (pc = "AllocTmp" /\ DocumentedOrder) =>
        \A n \in Assembled : snap.post[n] = ScaleGrid(snap.pre[n], DocumentedCoefficients[n])

\* the velocity mode as documented, the velocity unit on the gradient term
DocumentedVelocityMode(G, idx, d, symplectic) ==
    IF ~symplectic
    THEN LET phitot_v == CAdd(CAdd(CMul(vfac, kelem(G, "phi", idx)),
                                   CMul(CMul(CInt(2), vfac), kelem(G, "phi2", idx))),
                              CMul(CMul(CInt(3), vfac),
                                   CAdd(kelem(G, "phi3a", idx), kelem(G, "phi3b", idx))))
         IN  CDivR(CMul(CMul(vunit, CImag),
                        CAdd(CMul(get_k(idx, d), phitot_v),
                             CMul(CMul(CInt(3), vfac), CurlA(G, idx, d)))),
                   CInt(boxlen))
    ELSE LET phitot_v == CAdd(CMul(vfac, kelem(G, "phi", idx)),
                              CMul(CMul(CInt(2), vfac), kelem(G, "phi2", idx)))
         IN  CAdd(CDivR(CMul(CMul(vunit, CImag), CMul(get_k(idx, d), phitot_v)), CInt(boxlen)),
                  CMul(vfac, kelem(G, A3(d), idx)))

\* C10: the modes the velocity loop leaves in tmp are the documented ones, the
\* gradient term divided by the box length with and without SymplecticPT
C10_VelocityModes ==
    (pc = "VelFTB" /\ DocumentedOrder) =>
        grids["tmp"].buf = Tab(LAMBDA idx : DocumentedVelocityMode(grids, idx, idim, bSymplecticPT))

\* the steps of the semiclassical path that build psi and what follows from it
PsiSteps == {"QptPsiInit1", "QptPhi2FTB", "QptPsiInit2", "QptPsiFFT", "QptDrift", "QptPsiFTB",
             "QptKick", "QptRho", "QptWriteRho", "QptGrad", "QptVel"}

\* C11: with sigma(phi) = 0, hence hbar = 0, the semiclassical path goes no further:
\* psi is not built and no grid of this species is handed to the output plugin
C11_ZeroSigmaIsFatal ==
    (qpt.hbar = "zero" /\ DocumentedOrder) =>
        /\ pc \notin PsiSteps
        /\ \A i \in 1 .. Len(out) : out[i].species # this_species

\* the steps of the cascade after the phi(1) step
AfterPhi1 == {"Phi2Branch", "Phi2FTF", "Phi2Conv", "Phi2InvLap", "Phi3Branch", "SympBranch",
              "VnloFTF", "VnloConv", "Scale"} \cup Phi3Steps

\* the mode (0,0,0) of field n
DCMode(n) == grids[n].buf[1]

\* field n has passed through apply_InverseLaplacian in this iteration
InverseLaplaced(n) == \E i \in 1 .. Len(calls) : calls[i] = Logged("apply_InverseLaplacian", n, "")

\* C12: from the end of the phi(1) step on, through growth scaling and as long as the
\* field is held in k-space, the DC mode of phi is zero, and so is the DC mode of
\* every field that has passed through apply_InverseLaplacian
C12_DCModeStaysZero ==
    pc \in AfterPhi1 \cup EmissionSteps =>
        /\ grids["phi"].space = "k" => DCMode("phi") = CZero
        /\ \A n \in CascadeGrids :
              (InverseLaplaced(n) /\ grids[n].space = "k") => DCMode(n) = CZero

\* a third-order run reads its fields for the particle positions: all six fields
\* other than phi went through the inverse Laplacian, some mode of each is not zero
C12_Witness ==
    /\ pc = "PosFill"
    /\ LPTorder = 3
    /\ \A n \in CascadeGrids \ {"phi"} : InverseLaplaced(n) /\ grids[n].space = "k"
    /\ \A n \in CascadeGrids : DCMode(n) = CZero
    /\ grids["phi2"].buf # ZeroBuf /\ grids["phi3b"].buf # ZeroBuf

\* the convolver calls of this iteration that wrote into field n
CallsInto(n) == SelectSeq(calls, LAMBDA c : c.dst = n /\ c.op # "apply_InverseLaplacian"
                                            /\ c.op # "multiply")

\* field n was written by the transverse / by the symplectic construction of A
TransverseBuilt(n) ==
    \E i \in 1 .. Len(calls) :
        calls[i].dst = n /\ calls[i].op \in {"convolve_Hessians", "convolve_DifferenceOfHessians"}
SymplecticBuilt(n) ==
    \E i \in 1 .. Len(calls) : calls[i].dst = n /\ calls[i].op = "convolve_Gradient_and_Hessian"

AGrids == {"A3x", "A3y", "A3z"}

\* C13: when the cascade of a species iteration is through, phi2 has been assembled
\* iff order >= 2 or SymplecticPT; phi3a, phi3b and the transverse A[d] iff order >= 3
\* and not SymplecticPT; the symplectic A[d] iff SymplecticPT; no A[d] by both
C13_BranchesTaken ==
    pc \in {"Scale"} \cup EmissionSteps =>
        /\ CallsInto("phi2") # <<>> <=> (LPTorder >= 2 \/ bSymplecticPT)
        /\ \A n \in {"phi3a", "phi3b"} :
              CallsInto(n) # <<>> <=> (LPTorder >= 3 /\ ~bSymplecticPT)
        /\ \A n \in AGrids :
              /\ TransverseBuilt(n) <=> (LPTorder >= 3 /\ ~bSymplecticPT)
              /\ SymplecticBuilt(n) <=> bSymplecticPT
              /\ ~(TransverseBuilt(n) /\ SymplecticBuilt(n))

\* the cascade of the second species of a symplectic run configured with order 3 is
\* through: phi2 and the symplectic A[d] were assembled, phi3a was not
C13_Witness ==
    /\ pc = "Scale"
    /\ sp = 2
    /\ bSymplecticPT /\ cfg.order.present /\ cfg.order.val = 3
    /\ Len(CallsInto("phi2")) = 5
    /\ \A n \in AGrids : SymplecticBuilt(n) /\ ~TransverseBuilt(n)
    /\ CallsInto("phi3a") = <<>>

\* the kind of a writer, whichever of the two programs named it
WriterKind(w) ==
    CASE w \in {"assign_to", "assign_op"}         -> "assign"
      [] w \in {"add_to", "add_op"}               -> "add"
      [] w \in {"add_twice_to", "add2_op"}        -> "add twice"
      [] w \in {"subtract_from", "sub_op"}        -> "subtract"
      [] w \in {"subtract_twice_from", "sub2_op"} -> "subtract twice"
      [] OTHER -> w

\* what happened to field n according to history log: the writer kinds of the convolver
\* calls into it and the names of the other operations on it, in order
History(log, n) ==
    LET into == SelectSeq(log, LAMBDA c : c.dst = n)
    IN  [i \in 1 .. Len(into) |->
            IF into[i].op \in {"apply_InverseLaplacian", "multiply"} THEN into[i].op
            ELSE WriterKind(into[i].w)]

\* the growth factors have been applied
Scaled(log) == \E i \in 1 .. Len(log) : log[i].op = "scale"

\* the Hessian component (a, b) of a k-space buffer, in real space
RealHessian(buf, a, b) == IDFT(Hessian(buf, <<a, b>>))

\* the source term of the second-order potential, from the first-order potential's buffer
Phi2Expected(phi) ==
    LET h00 == RealHessian(phi, 0, 0)
        h11 == RealHessian(phi, 1, 1)
        h22 == RealHessian(phi, 2, 2)
        h01 == RealHessian(phi, 0, 1)
        h02 == RealHessian(phi, 0, 2)
        h12 == RealHessian(phi, 1, 2)
    IN  DFT(Tab(LAMBDA i :
            CSub(CSub(CSub(CAdd(CMul(h00[i + 1], CAdd(h11[i + 1], h22[i + 1])),
                                CMul(h11[i + 1], h22[i + 1])),
                           CMul(h01[i + 1], h01[i + 1])),
                      CMul(h02[i + 1], h02[i + 1])),
                 CMul(h12[i + 1], h12[i + 1]))))

Phi2History == <<"assign", "add", "subtract", "subtract", "subtract", "apply_InverseLaplacian">>

\* the second-order step as recorded in log with grids G
SecondOrderStep(log, G) ==
    /\ IsPrefix(History(log, "phi2"), Phi2History)
    /\ (~Scaled(log) /\ Len(History(log, "phi2")) = 5) =>
          G["phi2"].buf = Phi2Expected(G["phi"].buf)
    /\ (~Scaled(log) /\ Len(History(log, "phi2")) = 6) =>
          G["phi2"].buf = apply_InverseLaplacian(NewGrid(Phi2Expected(G["phi"].buf))).buf

\* C14: in Run and in main alike, phi2 is written by five convolver calls, an assign,
\* an add and three subtracts, and then passes through apply_InverseLaplacian once;
\* after the fifth call it holds the transform of
\* phi_00*(phi_11+phi_22) + phi_11*phi_22 - phi_01^2 - phi_02^2 - phi_12^2
C14_SecondOrderSource ==
    /\ SecondOrderStep(calls, grids)
    /\ SecondOrderStep(mainst.calls, mainst.grids)

\* Run has made the five calls and the inverse Laplacian, and phi2 is not zero
C14_Witness ==
    /\ pc = "Phi3Branch"
    /\ History(calls, "phi2") = Phi2History
    /\ grids["phi2"].buf # ZeroBuf

\* the source term of phi(3a): the determinant of the Hessian of phi
Phi3aExpected(phi) ==
    LET h00 == RealHessian(phi, 0, 0)
        h11 == RealHessian(phi, 1, 1)
        h22 == RealHessian(phi, 2, 2)
        h01 == RealHessian(phi, 0, 1)
        h02 == RealHessian(phi, 0, 2)
        h12 == RealHessian(phi, 1, 2)
        P(x, y, z, i) == CMul(CMul(x[i + 1], y[i + 1]), z[i + 1])
    IN  DFT(Tab(LAMBDA i :
            CSub(CSub(CSub(CAdd(P(h00, h11, h22, i), CMul(CInt(2), P(h01, h02, h12, i))),
                           P(h12, h12, h00, i)),
                      P(h02, h02, h11, i)),
                 P(h01, h01, h22, i))))

Phi3aHistory ==
    <<"assign", "add twice", "subtract", "subtract", "subtract", "apply_InverseLaplacian">>

\* the phi(3a) step as recorded in log with grids G
Phi3aStep(log, G) ==
    /\ IsPrefix(History(log, "phi3a"), Phi3aHistory)
    /\ (~Scaled(log) /\ Len(History(log, "phi3a")) = 5) =>
          G["phi3a"].buf = Phi3aExpected(G["phi"].buf)
    /\ (~Scaled(log) /\ Len(History(log, "phi3a")) = 6) =>
          G["phi3a"].buf = apply_InverseLaplacian(NewGrid(Phi3aExpected(G["phi"].buf))).buf

\* C15: in Run and in main alike, phi3a is written by five three-factor Hessian
\* products, the first assigned and the others accumulated with the coefficients
\* +2, -1, -1, -1, so that after the fifth call it holds the transform of the
\* determinant of the Hessian of phi
C15_ThirdOrderDeterminant ==
    /\ Phi3aStep(calls, grids)
    /\ Phi3aStep(mainst.calls, mainst.grids)

\* Run has made the five calls into phi3a, which holds a non-zero determinant
C15_Witness ==
    /\ pc = "Phi3aInvLap"
    /\ Len(History(calls, "phi3a")) = 5
    /\ grids["phi3a"].buf # ZeroBuf

\* the source term of phi(3b), from the buffers of phi and of phi2
Phi3bExpected(phi, phi2) ==
    LET h00 == RealHessian(phi, 0, 0)
        h11 == RealHessian(phi, 1, 1)
        h22 == RealHessian(phi, 2, 2)
        h01 == RealHessian(phi, 0, 1)
        h02 == RealHessian(phi, 0, 2)
        h12 == RealHessian(phi, 1, 2)
        q00 == RealHessian(phi2, 0, 0)
        q11 == RealHessian(phi2, 1, 1)
        q22 == RealHessian(phi2, 2, 2)
        q01 == RealHessian(phi2, 0, 1)
        q02 == RealHessian(phi2, 0, 2)
        q12 == RealHessian(phi2, 1, 2)
        S(x, y, z, i) == CMul(x[i + 1], CAdd(y[i + 1], z[i + 1]))
        M(x, y, i) == CMul(x[i + 1], y[i + 1])
    IN  DFT(Tab(LAMBDA i :
            CSub(CAdd(CAdd(S(h00, q11, q22, i), S(h11, q22, q00, i)), S(h22, q00, q11, i)),
                 CMul(CInt(2), CAdd(CAdd(M(h01, q01, i), M(h02, q02, i)), M(h12, q12, i))))))

Phi3bHistory ==
    <<"assign", "add", "add", "subtract twice", "subtract twice", "subtract twice",
      "apply_InverseLaplacian", "multiply">>

\* the phi(3b) step as recorded in log with grids G
Phi3bStep(log, G) ==
    LET n == Len(History(log, "phi3b"))
        src == Phi3bExpected(G["phi"].buf, G["phi2"].buf)
        inv == apply_InverseLaplacian(NewGrid(src))
    IN  /\ IsPrefix(History(log, "phi3b"), Phi3bHistory)
        /\ \A i \in 1 .. Len(log) : (log[i].dst = "phi3b" /\ log[i].op = "multiply") => log[i].w = "0.5"
        /\ (~Scaled(log) /\ n = 6) => G["phi3b"].buf = src
        /\ (~Scaled(log) /\ n = 7) => G["phi3b"].buf = inv.buf
        /\ (~Scaled(log) /\ n = 8) => G["phi3b"].buf = ScaleGrid(inv, CFrac(1, 2)).buf

\* C16: in Run and in main alike, phi3b is written by six convolver calls (an assign,
\* two adds, three double subtracts) that leave the transform of
\* phi_00*(phi2_11+phi2_22) + phi_11*(phi2_22+phi2_00) + phi_22*(phi2_00+phi2_11)
\* - 2*(phi_01*phi2_01 + phi_02*phi2_02 + phi_12*phi2_12); then the inverse
\* Laplacian is applied once and then the field is multiplied by 1/2 once
C16_ThirdOrderMixedTerm ==
    /\ Phi3bStep(calls, grids)
    /\ Phi3bStep(mainst.calls, mainst.grids)

\* Run has finished the phi(3b) step: six calls, inverse Laplacian, the factor 1/2
C16_Witness ==
    /\ pc \in {"A3FTF", "A3Conv"}
    /\ History(calls, "phi3b") = Phi3bHistory
    /\ grids["phi3b"].buf # ZeroBuf

\* the documented source term of the transverse potential A[d], from the buffers of phi
\* and of phi2
A3Expected(phi, phi2, d) ==
    LET dp == (d + 1) % 3
        dpp == (d + 2) % 3
        h1 == RealHessian(phi, d, dp)
        h2 == RealHessian(phi, d, dpp)
        hx == RealHessian(phi, dp, dpp)
        hp == RealHessian(phi, dp, dp)
        hpp == RealHessian(phi, dpp, dpp)
        q1 == RealHessian(phi2, d, dp)
        q2 == RealHessian(phi2, d, dpp)
        qx == RealHessian(phi2, dp, dpp)
        qp == RealHessian(phi2, dp, dp)
        qpp == RealHessian(phi2, dpp, dpp)
    IN  DFT(Tab(LAMBDA i :
            CSub(CAdd(CSub(CMul(q1[i + 1], h2[i + 1]), CMul(q2[i + 1], h1[i + 1])),
                      CMul(hx[i + 1], CSub(qp[i + 1], qpp[i + 1]))),
                 CMul(qx[i + 1], CSub(hp[i + 1], hpp[i + 1])))))

\* the transverse step as recorded in log with grids G: after its four calls A[d]
\* holds the documented expression
TransverseStep(log, G) ==
    \A d \in 0 .. 2 :
        (~Scaled(log) /\ History(log, A3(d)) = <<"assign", "subtract", "add", "subtract">>) =>
            G[A3(d)].buf = A3Expected(G["phi"].buf, G["phi2"].buf, d)

\* C17: in Run and in main alike, the four calls into A[d] leave the transform of
\* phi2_{d,d'}*phi_{d,d''} - phi2_{d,d''}*phi_{d,d'}
\* + phi_{d',d''}*(phi2_{d',d'} - phi2_{d'',d''}) - phi2_{d',d''}*(phi_{d',d'} - phi_{d'',d''})
C17_TransverseSource ==
    /\ TransverseStep(calls, grids)
    /\ TransverseStep(mainst.calls, mainst.grids)

\* the same for Run alone
TransverseSourceOfRun == TransverseStep(calls, grids)

\* the documented symplectic A[d]: the sum over e of grad_e(phi) * Hess_{d,e}(phi2)
VnloExpected(phi, phi2, d) ==
    LET g0 == IDFT(Gradient(phi, 0))
        g1 == IDFT(Gradient(phi, 1))
        g2 == IDFT(Gradient(phi, 2))
        q0 == RealHessian(phi2, d, 0)
        q1 == RealHessian(phi2, d, 1)
        q2 == RealHessian(phi2, d, 2)
    IN  DFT(Tab(LAMBDA i :
            CAdd(CAdd(CMul(g0[i + 1], q0[i + 1]), CMul(g1[i + 1], q1[i + 1])),
                 CMul(g2[i + 1], q2[i + 1]))))

VnloHistory == <<"assign", "add", "add">>

\* C18: under SymplecticPT each A[d] is written by one assign followed by two adds and
\* by nothing else (no inverse Laplacian, in particular), and before growth scaling
\* it holds the transform of the sum over e of grad_e(phi) * Hess_{d,e}(phi2)
C18_SymplecticTransverse ==
    bSymplecticPT =>
        \A d \in 0 .. 2 :
            /\ IsPrefix(History(calls, A3(d)), VnloHistory)
            /\ (~Scaled(calls) /\ History(calls, A3(d)) = VnloHistory) =>
                  grids[A3(d)].buf = VnloExpected(grids["phi"].buf, grids["phi2"].buf, d)

\* a symplectic run has built all three A[d], not all of them zero, and is about to scale
C18_Witness ==
    /\ bSymplecticPT
    /\ pc = "Scale"
    /\ \A d \in 0 .. 2 : History(calls, A3(d)) = VnloHistory
    /\ \E d \in 0 .. 2 : grids[A3(d)].buf # ZeroBuf

\* the documented displacement mode of axis d at cell idx, from the fields F:
\* i * (k_d * (phi + phi2 + phi3a + phi3b) + k_d' * A[d''] - k_d'' * A[d']) / L
DocumentedDisplacement(F, idx, d) ==
    LET dp == (d + 1) % 3
        dpp == (d + 2) % 3
        k(a) == get_k(idx, a)
        f(n) == F[n].buf[idx + 1]
        total == CAdd(CAdd(CAdd(f("phi"), f("phi2")), f("phi3a")), f("phi3b"))
    IN  CDivR(CMul(CImag, CSub(CAdd(CMul(k(d), total), CMul(k(dp), f(A3(dpp)))),
                               CMul(k(dpp), f(A3(dp))))),
              CInt(boxlen))

\* main has just executed its statement op
MainJustDid(op) ==
    /\ mainst.pc = "Pipeline"
    /\ mainst.step > 1
    /\ MainProgram[mainst.step - 1].op = op

\* C19: the displacement modes that Run (particles and field_lagrangian) and main put
\* into tmp are the documented ones of the growth-scaled fields, times the plugin's
\* position unit in Run
C19_DisplacementModes ==
    /\ pc = "PosFTB" =>
          /\ Scaled(calls)
          /\ \A idx \in Idx :
                grids["tmp"].buf[idx + 1] = CMul(lunit, DocumentedDisplacement(snap.post, idx, idim))
    /\ MainJustDid("displacement") =>
          /\ Scaled(mainst.calls)
          /\ \A idx \in Idx :
                mainst.grids["tmp"].buf[idx + 1] =
                    DocumentedDisplacement(mainst.grids, idx, MainProgram[mainst.step - 1].d)

\* Run at third order has filled tmp with the displacement modes of the second axis, and
\* the transverse part contributes to one of them
C19_Witness ==
    /\ pc = "PosFTB"
    /\ idim = 1
    /\ LPTorder = 3
    /\ \E idx \in Idx : CurlA(snap.post, idx, idim) # CZero
    /\ grids["tmp"].buf # ZeroBuf

\* the real-space displacement and velocity fields of axis d, from the fields F left by
\* growth scaling, on the primary lattice and shifted by half a cell
PrimaryField(what, F, d) ==
    IDFT(Tab(LAMBDA idx : IF what = "pos" THEN DisplacementMode(F, idx, d)
                                          ELSE VelocityMode(F, idx, d, bSymplecticPT)))
StaggeredField(what, F, d) == stagger_field(NewGrid(PrimaryField(what, F, d))).buf

\* slot s (counted from 0) of the container holds exactly the values of cell idx:
\* axis by axis one position, the lattice site r plus the displacement, and one velocity
SlotHolds(s, r, disp, vel, idx) ==
    \A d \in Dims :
        /\ particles.pos[s + 1][d] = <<CAdd(CMul(r[d + 1], lunit), disp[d + 1][idx + 1])>>
        /\ particles.vel[s + 1][d] = <<vel[d + 1][idx + 1]>>

C21_StaggerInKSpace ==
    (pc \in {"PosStagger", "VelStagger"} /\ DocumentedOrder) => grids["tmp"].space = "k"

\* the documented life of psi at the given order: what is applied to it, what each
\* step reads and in which state
DocumentedPsi(order) ==
    << IF order = 1 THEN Op("assign_exp", <<"phi">>, <<"r">>)
                    ELSE Op("assign_exp", <<"phi", "phi2">>, <<"r", "r">>),
       Op("fft", <<>>, <<>>),
       Op("drift", <<"psi">>, <<"k">>),
       Op("ifft", <<>>, <<>>) >>
    \o (IF order >= 2 THEN <<Op("mul_exp", <<"psi", "phi2">>, <<"r", "r">>)>> ELSE <<>>)

\* the semiclassical steps in the documented order, at the effective order of the run
SemiclassicalOrder ==
    /\ pc \in PsiSteps \cup {"QptPsiBranch"} => grids["phi"].space = "r"
    /\ pc \in PsiSteps => qpt.hbar # "unset"
    /\ IsPrefix(qpt.psi.ops, DocumentedPsi(LPTorder))
    /\ qpt.rho.ops # <<>> =>
          /\ qpt.psi.ops = DocumentedPsi(LPTorder)
          /\ qpt.rho.ops = <<Op("norm2_minus_1", <<"psi">>, <<"r">>)>>

\* C22: in the semiclassical path phi is real before hbar is taken, psi is initialised
\* (from phi at order 1, from phi + phi2 from order 2 on) before it is transformed and
\* drifted in k-state, transformed back and, from order 2 on, multiplied by the phi2
\* factor, and only then the density is formed; every real-space assignment reads
\* grids in real state; this for every order the run can have
C22_SemiclassicalOrder == AfterOverride => SemiclassicalOrder

\* the same for the documented orders alone
SemiclassicalOrderWhenDocumented == (AfterOverride /\ DocumentedOrder) => SemiclassicalOrder

\* the probability current of a cell: Im(conj(psi) * grad_d psi)
Current(c) == CIm(CMul(CConj(c.psi), c.grad_psi))

\* how the three grids read by the velocity assignment were made: psi back in real
\* state, grad_psi from a copy of psi whose modes were multiplied by i k_d, rho from psi
VelocityOperands ==
    /\ qpt.vel.from[1] = qpt.psi /\ qpt.psi.space = "r"
    /\ qpt.vel.from[2].space = "r"
    /\ \E q \in {"k", "r"} : \E d \in Dims :
          qpt.vel.from[2].ops = <<Op("copy_from", <<"psi">>, <<q>>), Op("fft", <<>>, <<>>),
                                  Op("mul_ik", <<VelocityComponent(d)>>, <<"k">>),
                                  Op("ifft", <<>>, <<>>)>>
    /\ qpt.vel.from[3] = qpt.rho /\ qpt.rho.space = "r"

\* C23: the velocity handed to the plugin on the semiclassical path is, cell by cell,
\* Im(conj(psi) * grad_d psi) / (hbar * (1 + rho)), grad_d psi being psi with its modes
\* multiplied by i k_d
C23_CurrentOverHbar ==
    (qpt.vel.written /\ qpt.hbar = "positive" /\ DocumentedOrder) =>
        /\ VelocityOperands
        /\ qpt.vel.val = CDivR(Current(qpt.vel.at), CMul(qpt.vel.at.hbar, CAdd(COne, qpt.vel.at.rho)))

\* C23 as the code has it: the current is multiplied, not divided, by hbar, and divided
\* by 1 + rho; with hbar = 0 the quotient is no number
C23_CurrentTimesHbar ==
    qpt.vel.written =>
        /\ VelocityOperands
        /\ qpt.hbar = "positive" =>
              qpt.vel.val = CDivR(CMul(qpt.vel.at.hbar, Current(qpt.vel.at)), CAdd(COne, qpt.vel.at.rho))
        /\ qpt.hbar = "zero" => qpt.vel.val = CNaN

\* a velocity was formed where hbar is not 1, the density is not zero and the current
\* does not vanish
C23_Witness ==
    /\ qpt.vel.written
    /\ qpt.hbar = "positive"
    /\ qpt.vel.at.hbar = CInt(2)
    /\ qpt.vel.at.rho = COne
    /\ Current(qpt.vel.at) # CZero
    /\ qpt.vel.val = Current(qpt.vel.at)

\* the steps that make a convolver call, and the call the next step makes
ConvSteps == {"Phi2Conv", "Phi3aConv", "Phi3bConv", "A3Conv", "VnloConv"}
PendingCall ==
    CASE pc = "Phi2Conv"  -> Phi2Calls[ci]
      [] pc = "Phi3aConv" -> Phi3aCalls[ci]
      [] pc = "Phi3bConv" -> Phi3bCalls[ci]
      [] pc = "A3Conv"    -> A3Calls(idim)[ci]
      [] pc = "VnloConv"  -> VnloCalls(idim)[ci]
Operands(c) == {c.a, c.b, c.c}

\* the operations on field n in this species iteration, by name
Operations(n) ==
    LET on == SelectSeq(calls, LAMBDA c : c.dst = n)
    IN  [i \in 1 .. Len(on) |-> on[i].op]

\* the assembly of field n is complete in this species iteration
Complete(n) ==
    CASE n = "phi"  -> Operations("phi") = <<"apply_function_k_dep", "zero_DC_mode">>
      [] n = "phi2" -> History(calls, "phi2") = Phi2History
      [] OTHER -> FALSE

\* C24: a convolver call is made only before the growth scaling of its species
\* iteration, and each of its operands is phi after the amplitude function and
\* zero_DC_mode, or phi2 after its five calls and its inverse Laplacian; nothing is
\* convolved once the scaling is done
C24_OperandsCompleteAndUnscaled ==
    /\ pc \in ConvSteps =>
          /\ ~Scaled(calls)
          /\ \A n \in Operands(PendingCall) : Complete(n)
    /\ \A i \in 1 .. Len(calls) : calls[i].op = "scale" => i = Len(calls)

\* the second species iteration is about to make a call that reads phi and phi2
C24_Witness ==
    /\ sp = 2
    /\ pc \in {"Phi3bConv", "A3Conv", "VnloConv"}
    /\ Operands(PendingCall) = {"phi", "phi2"}
    /\ Complete("phi") /\ Complete("phi2")

\* the fields the cascade assembles by convolver calls
AssembledByCalls == {"phi2", "phi3a", "phi3b"} \cup AGrids

\* the call table the step pc works through, for axis d
CallTable(step, d) ==
    CASE step = "Phi2Conv"  -> Phi2Calls
      [] step = "Phi3aConv" -> Phi3aCalls
      [] step = "Phi3bConv" -> Phi3bCalls
      [] step = "A3Conv"    -> A3Calls(d)
      [] step = "VnloConv"  -> VnloCalls(d)

\* C25: in every species iteration the first convolver call into a destination uses
\* the assign writer and every later one an accumulating writer, no call reads its own
\* destination, and after the first call the destination holds the value of that
\* call alone, whatever the grid held before
C25_FirstCallAssigns ==
    /\ \A n \in AssembledByCalls :
          \A i \in 1 .. Len(CallsInto(n)) :
              WriterKind(CallsInto(n)[i].w) = "assign" <=> i = 1
    /\ pc \in ConvSteps =>
          /\ PendingCall.dst \in AssembledByCalls \ Operands(PendingCall)
          /\ ci = 2 => grids[PendingCall.dst].buf = ConvValue(CallTable(pc, idim)[1], grids)

\* in the second species iteration the first call into a grid that still holds the
\* scaled field of the first iteration has been made
C25_Witness ==
    /\ sp = 2
    /\ pc = "Phi2Conv"
    /\ ci = 2
    /\ snap.post["phi2"].buf # ZeroBuf
    /\ grids["phi2"].buf # snap.post["phi2"].buf

Next == RunNext

Spec == Init /\ [][Next]_vars

\* Run and main together: a behaviour is one of Run or one of main
NextAll == RunNext \/ MainNext

SpecAll == (Init \/ InitMain) /\ [][NextAll]_vars

====
